---- MODULE Spec2Model ----
(***************************************************************************)
(* Kaleidoscope backend: the catalog adapters (soundcloud, youtube,        *)
(* spotify), the cross-catalog resolver get_spotify_stream_url and the     *)
(* dispatching endpoints of main.py, as one request-scoped state machine.  *)
(*                                                                         *)
(* Python dictionaries are functions with string domains.  A key that is   *)
(* missing and a key whose value is null are the same thing to dict.get,   *)
(* so both are modelled as a key outside the DOMAIN.  None as a returned   *)
(* value is NONE; an exception leaving a call is RAISED.  Passthrough       *)
(* fields that no decision reads (cover art, genre, permalink, album,      *)
(* popularity) are left out of the normalized tracks.                      *)
(*                                                                         *)
(* Spec serves one request through the endpoints and the resolver.         *)
(* AdapterSpec applies single adapter functions of youtube.py to every     *)
(* upstream answer of their domains and records arguments and result.      *)
(* ClientSpec runs get_spotify_client on the threads of the framework's    *)
(* pool.  AuthSpec serves the auth and profile endpoints (api/routes.py,    *)
(* api/profiles.py) and the caller-identity check one request at a time    *)
(* against the store; RefreshSpec serves refresh requests at once, each    *)
(* store access a step.                                                    *)
(***************************************************************************)
EXTENDS Integers, Sequences, FiniteSets, TLC

\* ------------------------------------------------------------ bounds
\* records in one upstream Upload-catalog search response
MaxCands == 3
\* records in one upstream Video-/licensed-catalog search response
MaxItems == 2
\* entries in one thumbnail list
MaxThumbs == 3
\* worker threads calling get_spotify_client, and calls each of them makes
MaxThreads == 2
MaxClientCalls == 2
\* auth and profile requests served in one behaviour
MaxRequests == 4
\* the clock is advanced while it reads fewer seconds than this
MaxClock == 1
\* refresh requests in flight at the same time
MaxRefreshers == 2

\* ------------------------------------------------------------ python values
NONE == [py |-> "None"]
RAISED == [py |-> "raise"]
NOT_DICT == [py |-> "list"]
EMPTY == << >>

Has(d, k) == k \in DOMAIN d
IsDict(d) == ~Has(d, "py")
\* `not d` for a value that is None, {} or a non-empty container
Falsy(d) == d = NONE \/ d = EMPTY
\* d.get(k) is truthy, for an integer field and for a string field
TruthyInt(d, k) == Has(d, k) /\ d[k] # 0
TruthyStr(d, k) == Has(d, k) /\ d[k] # ""
GetOr(d, k, default) == IF Has(d, k) THEN d[k] ELSE default
Abs(x) == IF x < 0 THEN -x ELSE x
Min(a, b) == IF a <= b THEN a ELSE b
SeqFilter(s, T(_)) == SelectSeq(s, T)

MapSeq(s, F(_)) == [i \in 1..Len(s) |-> F(s[i])]

RECURSIVE SeqsUpTo(_, _)
\* all sequences over S of length 0..n
SeqsUpTo(S, n) ==
    IF n = 0 THEN {<< >>}
    ELSE LET shorter == SeqsUpTo(S, n - 1)
         IN  shorter \cup {Append(s, x) : s \in {t \in shorter : Len(t) = n - 1}, x \in S}

\* ------------------------------------------------------------ soundcloud.py
HasProgressive(transcodings) ==
    \E i \in 1..Len(transcodings) :
        /\ Has(transcodings[i], "format")
        /\ GetOr(transcodings[i].format, "protocol", "") = "progressive"
        /\ TruthyStr(transcodings[i], "url")

FirstProgressive(transcodings) ==
    LET hits == {i \in 1..Len(transcodings) :
                    /\ Has(transcodings[i], "format")
                    /\ GetOr(transcodings[i].format, "protocol", "") = "progressive"
                    /\ TruthyStr(transcodings[i], "url")}
    IN  IF hits = {} THEN ""
        ELSE transcodings[CHOOSE i \in hits : \A j \in hits : i <= j].url

\* the upstream streamable flag is ignored: only a progressive entry keeps a record
format_soundcloud_track_progonly(track_data) ==
    IF Falsy(track_data) \/ ~IsDict(track_data) THEN NONE
    ELSE IF ~TruthyInt(track_data, "id") THEN NONE
    ELSE IF Has(track_data, "media") /\ track_data.media = NONE THEN NONE
    ELSE IF ~HasProgressive(GetOr(GetOr(track_data, "media", EMPTY), "transcodings", << >>))
    THEN NONE
    ELSE [id |-> ToString(track_data.id),
          title |-> GetOr(track_data, "title", "Unknown Title"),
          duration |-> GetOr(track_data, "duration", 0) \div 1000,
          source |-> "soundcloud",
          streamable |-> TRUE]

\* the record is kept although it has no id
format_soundcloud_track_noid(track_data) ==
    IF Falsy(track_data) \/ ~IsDict(track_data) THEN NONE
    ELSE IF Has(track_data, "media") /\ track_data.media = NONE THEN NONE
    ELSE [id |-> ToString(GetOr(track_data, "id", 0)),
          title |-> GetOr(track_data, "title", "Unknown Title"),
          duration |-> GetOr(track_data, "duration", 0) \div 1000,
          source |-> "soundcloud",
          streamable |-> TRUE]

format_soundcloud_track(track_data) ==
    IF Falsy(track_data) \/ ~IsDict(track_data) THEN NONE
    ELSE IF ~TruthyInt(track_data, "id") THEN NONE
    \* media is null: media.get raises AttributeError, caught at line 99
    ELSE IF Has(track_data, "media") /\ track_data.media = NONE THEN NONE
    ELSE LET is_streamable_api_flag == GetOr(track_data, "streamable", FALSE)
             media == GetOr(track_data, "media", EMPTY)
             transcodings == GetOr(media, "transcodings", << >>)
             has_progressive_stream == HasProgressive(transcodings)
             duration_ms == GetOr(track_data, "duration", 0)
         IN  IF ~has_progressive_stream /\ ~is_streamable_api_flag THEN NONE
             ELSE [id |-> ToString(track_data.id),
                   title |-> GetOr(track_data, "title", "Unknown Title"),
                   duration |-> duration_ms \div 1000,
                   source |-> "soundcloud",
                   streamable |-> has_progressive_stream \/ is_streamable_api_flag]

NotNone(x) == x # NONE

\* outcome: what requests.get(.../search/tracks) and response.json() produce
search_soundcloud(client_id, outcome) ==
    IF ~client_id THEN << >>
    ELSE IF outcome.kind # "ok" THEN << >>
    ELSE SeqFilter(MapSeq(outcome.collection, format_soundcloud_track), NotNone)

\* hop1, hop2: what the two requests of get_soundcloud_stream_url produce
get_soundcloud_stream_url(client_id, hop1, hop2) ==
    IF ~client_id THEN NONE
    ELSE IF hop1.kind # "ok" THEN NONE
    ELSE LET track_data == hop1.json
         IN  IF Falsy(track_data) THEN NONE
             \* lines 169-171 are outside every try block
             ELSE IF ~IsDict(track_data) THEN RAISED
             ELSE IF Has(track_data, "media") /\ track_data.media = NONE THEN RAISED
             ELSE LET transcodings ==
                          GetOr(GetOr(track_data, "media", EMPTY), "transcodings", << >>)
                      progressive_stream_info_url == FirstProgressive(transcodings)
                  IN  IF progressive_stream_info_url = "" THEN NONE
                      ELSE IF hop2.kind # "ok" THEN NONE
                      ELSE IF ~IsDict(hop2.json) THEN NONE
                      ELSE IF ~TruthyStr(hop2.json, "url") THEN NONE
                      ELSE [url |-> hop2.json.url, type |-> "audio", source |-> "soundcloud"]

get_soundcloud_track_details(client_id, outcome) ==
    IF ~client_id THEN NONE
    ELSE IF outcome.kind # "ok" THEN NONE
    ELSE outcome.json

\* ------------------------------------------------------------ youtube.py
MAX_DURATION_SEARCH_SECONDS == 300
MAX_DURATION_DETAILS_SECONDS == 300
YOUTUBE_WATCH_URL == "https://www.youtube.com/watch?v="
YOUTUBE_EMBED_URL == "https://www.youtube.com/embed/"
\* a video_id argument of None (path parameters are never empty)
NoVideoId == ""

\* duration_str is modelled after split(':') and int(): a tuple of numbers;
\* a missing, null or non-string duration is the empty tuple
_parse_duration(parts) ==
    IF Len(parts) = 2 THEN parts[1] * 60 + parts[2]
    ELSE IF Len(parts) = 3 THEN parts[1] * 3600 + parts[2] * 60 + parts[3]
    ELSE IF Len(parts) = 1 THEN parts[1]
    ELSE 0

Pad2(n) == IF n < 10 THEN "0" \o ToString(n) ELSE ToString(n)

_format_duration_string(seconds) ==
    IF seconds <= 0 THEN "0:00"
    ELSE LET h == seconds \div 3600
             m == (seconds % 3600) \div 60
             s == seconds % 60
         IN  IF h > 0 THEN ToString(h) \o ":" \o Pad2(m) \o ":" \o Pad2(s)
             ELSE ToString(m) \o ":" \o Pad2(s)

\* ---- _get_best_thumbnail (lines 49-81)
\* An Optional[str] result is NONE or Some(url).  A list element that is a
\* string is [str |-> text].  A key present with a null value matters here
\* ('width' in t), so it is listed in the entry's nulls.
Some(url) == [url |-> url]
IsStr(thumb) == Has(thumb, "str")
\* `k in t`
In(t, k) == Has(t, k) \/ (Has(t, "nulls") /\ k \in t.nulls)
quality_order == <<"maxresdefault", "sddefault", "hqdefault", "mqdefault", "default">>

\* `quality_key in url` for the texts of the domain: a substring test, so
\* "default" is found in every text that holds one of the longer labels
QualityKeyIn(quality_key, text) ==
    \/ /\ text = "https://i/maxresdefault.jpg"
       /\ quality_key \in {"maxresdefault", "default"}
    \/ /\ text = "https://i/hqdefault.jpg"
       /\ quality_key \in {"hqdefault", "default"}
    \/ /\ text \in {"https://i/mqdefault.jpg", "mqdefault"}
       /\ quality_key \in {"mqdefault", "default"}
    \/ /\ text = "https://i/default.jpg"
       /\ quality_key = "default"
\* str.lower() for the ids of the domain
Lower(text) == IF text = "HQDEFAULT" THEN "hqdefault" ELSE text
\* str.startswith('http') for the texts of the domain
StartsWithHttp(text) == text # "mqdefault"

\* line 54
AllSized(thumbnails) ==
    \A i \in 1..Len(thumbnails) :
        /\ ~IsStr(thumbnails[i])
        /\ In(thumbnails[i], "url")
        /\ In(thumbnails[i], "width")
        /\ In(thumbnails[i], "height")
\* line 56, the key: None * int raises TypeError
AreaRaises(thumbnails) ==
    \E i \in 1..Len(thumbnails) :
        ~Has(thumbnails[i], "width") \/ ~Has(thumbnails[i], "height")
Area(t) == t.width * t.height
\* max(): the first entry of the greatest key
MaxByArea(thumbnails) ==
    thumbnails[CHOOSE i \in 1..Len(thumbnails) :
                  \A j \in 1..Len(thumbnails) :
                      \/ Area(thumbnails[i]) > Area(thumbnails[j])
                      \/ Area(thumbnails[i]) = Area(thumbnails[j]) /\ i <= j]

\* line 64: thumb.get('id', '').lower() raises AttributeError on a null id
IdRaises(thumbnails) ==
    \E i \in 1..Len(thumbnails) :
        ~IsStr(thumbnails[i]) /\ In(thumbnails[i], "id") /\ ~Has(thumbnails[i], "id")

\* lines 62-77 for one entry; acc holds found_qualities and best_url
ScanThumb(thumb, acc) ==
    LET text == IF IsStr(thumb) THEN thumb.str ELSE GetOr(thumb, "url", "")
        thumb_id == IF IsStr(thumb) THEN "" ELSE Lower(GetOr(thumb, "id", ""))
        seen == IF IsStr(thumb) THEN StartsWithHttp(text) ELSE text # ""
        hits == {quality_order[k] : k \in
                    {n \in 1..Len(quality_order) :
                        /\ \/ QualityKeyIn(quality_order[n], text)
                           \/ ~IsStr(thumb) /\ quality_order[n] = thumb_id
                        /\ quality_order[n] \notin DOMAIN acc.found_qualities}}
    IN  IF ~seen THEN acc
        ELSE [found_qualities |-> acc.found_qualities @@ [q \in hits |-> text],
              best_url |-> Some(text)]

RECURSIVE ScanForward(_, _, _)
\* the loop taken over thumbnails instead of reversed(thumbnails)
ScanForward(thumbnails, i, acc) ==
    IF i > Len(thumbnails) THEN acc
    ELSE ScanForward(thumbnails, i + 1, ScanThumb(thumbnails[i], acc))

RECURSIVE ScanReversed(_, _, _)
\* line 61: the loop over reversed(thumbnails), entries i, i-1, .., 1
ScanReversed(thumbnails, i, acc) ==
    IF i = 0 THEN acc
    ELSE ScanReversed(thumbnails, i - 1, ScanThumb(thumbnails[i], acc))

\* lines 78-81
BestFound(acc) ==
    LET ranks == {k \in 1..Len(quality_order) :
                     quality_order[k] \in DOMAIN acc.found_qualities}
    IN  IF ranks # {}
        THEN Some(acc.found_qualities[
                 quality_order[CHOOSE k \in ranks : \A m \in ranks : k <= m]])
        ELSE acc.best_url

\* the entries are scanned first to last
_get_best_thumbnail_forward(thumbnails) ==
    IF thumbnails = << >> THEN NONE
    ELSE IF AllSized(thumbnails)
    THEN IF AreaRaises(thumbnails) THEN RAISED
         ELSE LET best == MaxByArea(thumbnails)
              IN  IF Has(best, "url") THEN Some(best.url) ELSE NONE
    ELSE IF IdRaises(thumbnails) THEN RAISED
    ELSE BestFound(ScanForward(thumbnails, 1,
                               [found_qualities |-> << >>, best_url |-> NONE]))

\* thumbnails is a list; None is answered like the empty list (line 51)
_get_best_thumbnail(thumbnails) ==
    IF thumbnails = << >> THEN NONE
    ELSE IF AllSized(thumbnails)
    THEN IF AreaRaises(thumbnails) THEN RAISED
         ELSE LET best == MaxByArea(thumbnails)
              IN  IF Has(best, "url") THEN Some(best.url) ELSE NONE
    ELSE IF IdRaises(thumbnails) THEN RAISED
    ELSE BestFound(ScanReversed(thumbnails, Len(thumbnails),
                                [found_qualities |-> << >>, best_url |-> NONE]))

RECURSIVE JoinNames(_)
JoinNames(names) ==
    IF names = << >> THEN ""
    ELSE IF Len(names) = 1 THEN names[1]
    ELSE names[1] \o ", " \o JoinNames(Tail(names))

HasName(artist) == TruthyStr(artist, "name")
NameOf(artist) == artist.name

_extract_artist_names(artists_data) ==
    LET names == MapSeq(SeqFilter(artists_data, HasName), NameOf)
    IN  IF names = << >> THEN "Unknown Artist" ELSE JoinNames(names)

YtArtist(item) ==
    LET artist_display_name == _extract_artist_names(GetOr(item, "artists", << >>))
    IN  IF artist_display_name = "Unknown Artist" /\ Has(item, "artist")
        THEN item.artist ELSE artist_display_name

\* a result of exactly the cap is dropped too
YtKept_strict(item) ==
    /\ TruthyStr(item, "videoId")
    /\ ~(/\ MAX_DURATION_SEARCH_SECONDS > 0
         /\ _parse_duration(GetOr(item, "duration", << >>)) >= MAX_DURATION_SEARCH_SECONDS)

\* lines 106-113: the result is not skipped
YtKept(item) ==
    /\ TruthyStr(item, "videoId")
    /\ ~(/\ MAX_DURATION_SEARCH_SECONDS > 0
         /\ _parse_duration(GetOr(item, "duration", << >>)) > MAX_DURATION_SEARCH_SECONDS)

YtTrack(item) ==
    LET duration_seconds == _parse_duration(GetOr(item, "duration", << >>))
    IN  [id |-> item.videoId,
         videoId |-> item.videoId,
         title |-> GetOr(item, "title", "Unknown Title"),
         artist |-> YtArtist(item),
         duration |-> duration_seconds,
         durationString |-> _format_duration_string(duration_seconds),
         source |-> "youtube"]

\* outcome: what ytmusic.search produces
search_youtube(ytmusic, outcome) ==
    IF ~ytmusic THEN << >>
    ELSE IF outcome.kind # "ok" THEN << >>
    ELSE MapSeq(SeqFilter(outcome.results, YtKept), YtTrack)

\* the identifier the extractor is invoked for (NoVideoId: none was found)
StreamVideoId(video_id, ytmusic, found) ==
    IF video_id # NoVideoId THEN video_id
    ELSE LET search_results == search_youtube(ytmusic, found)
         IN  IF search_results # << >> THEN search_results[1].id ELSE NoVideoId

\* an extractor failure ends in no stream at all
get_stream_url_noembed(video_id, search_query_override, ytmusic, found, info) ==
    IF video_id = NoVideoId /\ search_query_override = "" THEN NONE
    ELSE LET vid == StreamVideoId(video_id, ytmusic, found)
         IN  IF vid = NoVideoId THEN NONE
             ELSE IF info.kind = "ok" /\ ~Falsy(info.json) /\ Has(info.json, "url")
                  THEN [url |-> info.json.url, type |-> "audio", source |-> "youtube"]
                  ELSE NONE

\* found: what the single-result search produces; info: what extract_info produces;
\* no caller of this repository passes track_title or track_artist
get_stream_url(video_id, search_query_override, ytmusic, found, info) ==
    IF video_id = NoVideoId /\ search_query_override = "" THEN NONE
    ELSE LET vid == StreamVideoId(video_id, ytmusic, found)
             youtube_embed_fallback_url == YOUTUBE_EMBED_URL \o vid \o "?autoplay=1"
         IN  IF vid = NoVideoId THEN NONE
             ELSE IF info.kind = "ok" /\ ~Falsy(info.json) /\ Has(info.json, "url")
                  THEN [url |-> info.json.url, type |-> "audio", source |-> "youtube"]
                  ELSE [url |-> youtube_embed_fallback_url, type |-> "embed",
                        source |-> "youtube"]

YtDetails(video_id, title, artist, duration_seconds) ==
    [id |-> video_id,
     videoId |-> video_id,
     title |-> title,
     artist |-> artist,
     duration |-> duration_seconds,
     durationString |-> _format_duration_string(duration_seconds),
     source |-> "youtube"]

\* first tier: the metadata API (ytmusic.get_song)
DetailsFromApi(video_id, ytmusic, song) ==
    IF ~ytmusic \/ song.kind # "ok" THEN NONE
    ELSE IF Falsy(song.json) \/ ~Has(song.json, "videoDetails") THEN NONE
    ELSE LET details == song.json.videoDetails
             duration_seconds == GetOr(details, "lengthSeconds", 0)
         IN  IF MAX_DURATION_DETAILS_SECONDS > 0
                /\ duration_seconds > MAX_DURATION_DETAILS_SECONDS
             THEN NONE
             ELSE YtDetails(video_id, GetOr(details, "title", "Unknown Title"),
                            GetOr(details, "author", "Unknown Artist"), duration_seconds)

\* the extractor's answer is used whatever its duration
DetailsFromExtractor_nocap(video_id, info) ==
    IF info.kind # "ok" \/ Falsy(info.json) THEN NONE
    ELSE YtDetails(video_id, GetOr(info.json, "title", "Unknown Title"),
                   GetOr(info.json, "uploader", "Unknown Artist"),
                   GetOr(info.json, "duration", 0))

\* second tier: the extractor (yt-dlp), entered with no details yet
DetailsFromExtractor(video_id, info) ==
    IF info.kind # "ok" \/ Falsy(info.json) THEN NONE
    ELSE LET duration_seconds == GetOr(info.json, "duration", 0)
         IN  IF MAX_DURATION_DETAILS_SECONDS > 0
                /\ duration_seconds > MAX_DURATION_DETAILS_SECONDS
             THEN NONE
             ELSE YtDetails(video_id, GetOr(info.json, "title", "Unknown Title"),
                            GetOr(info.json, "uploader", "Unknown Artist"), duration_seconds)

\* the upstream lookups get_youtube_track_details makes (lines 182-184, 213-220)
DetailsLookups(video_id, ytmusic, song) ==
    (IF ytmusic THEN <<"get_song">> ELSE << >>)
        \o (IF DetailsFromApi(video_id, ytmusic, song) = NONE
            THEN <<"extract_info">> ELSE << >>)

get_youtube_track_details(video_id, ytmusic, song, info) ==
    LET track_details == DetailsFromApi(video_id, ytmusic, song)
    IN  IF track_details # NONE THEN track_details
        ELSE DetailsFromExtractor(video_id, info)

\* ------------------------------------------------------------ spotify.py
SPOTIFY_CLIENT == [client |-> "spotipy"]

\* the value get_spotify_client returns and stores in _spotify_client
get_spotify_client(current, configured, constructed) ==
    IF current # NONE THEN current
    ELSE IF ~configured THEN NONE
    ELSE IF constructed THEN SPOTIFY_CLIENT
    ELSE NONE

NameRank(n) == CASE n = "A" -> 1 [] n = "B" -> 2 [] OTHER -> 3

RECURSIVE SortedNames(_)
\* sorted(...) of a set of names
SortedNames(S) ==
    IF S = {} THEN << >>
    ELSE LET least == CHOOSE n \in S : \A m \in S : NameRank(n) <= NameRank(m)
         IN  <<least>> \o SortedNames(S \ {least})

SpotifyArtistNames(track_data) ==
    LET artists_data == GetOr(track_data, "artists", << >>)
    IN  SortedNames({artists_data[i].name :
                        i \in {j \in 1..Len(artists_data) : HasName(artists_data[j])}})

\* simplify_for_stream_search = True
SimplifiedSpotifyTrack(track_data) ==
    IF Falsy(track_data) \/ ~IsDict(track_data) THEN NONE
    ELSE IF GetOr(track_data, "type", "") # "track" THEN NONE
    ELSE IF ~TruthyStr(track_data, "id") THEN NONE
    ELSE LET artist_names == SpotifyArtistNames(track_data)
         IN  [id |-> track_data.id,
              name |-> GetOr(track_data, "name", "Unknown Title"),
              artist |-> IF artist_names # << >> THEN artist_names[1] ELSE "Unknown Artist",
              duration_ms |-> GetOr(track_data, "duration_ms", 0)]

\* the record is kept although it has no id
_format_spotify_track_noid(track_data) ==
    IF Falsy(track_data) \/ ~IsDict(track_data) THEN NONE
    ELSE IF GetOr(track_data, "type", "") # "track" THEN NONE
    ELSE [id |-> GetOr(track_data, "id", ""),
          title |-> GetOr(track_data, "name", "Unknown Title"),
          artist |-> JoinNames(SpotifyArtistNames(track_data)),
          duration |-> GetOr(track_data, "duration_ms", 0) \div 1000,
          durationMs |-> GetOr(track_data, "duration_ms", 0),
          source |-> "spotify"]

\* simplify_for_stream_search = False; a null previewUrl is a missing key
_format_spotify_track(track_data) ==
    IF Falsy(track_data) \/ ~IsDict(track_data) THEN NONE
    ELSE IF GetOr(track_data, "type", "") # "track" THEN NONE
    ELSE IF ~TruthyStr(track_data, "id") THEN NONE
    ELSE LET duration_ms == GetOr(track_data, "duration_ms", 0)
             duration_s == duration_ms \div 1000
         IN  [id |-> track_data.id,
              title |-> GetOr(track_data, "name", "Unknown Title"),
              artist |-> JoinNames(SpotifyArtistNames(track_data)),
              duration |-> duration_s,
              durationString |-> ToString(duration_s \div 60) \o ":" \o Pad2(duration_s % 60),
              durationMs |-> duration_ms,
              source |-> "spotify",
              spotifyId |-> track_data.id]
             @@ (IF Has(track_data, "preview_url")
                 THEN [previewUrl |-> track_data.preview_url] ELSE EMPTY)

\* outcome: what sp.track produces
get_spotify_track_details(sp, outcome) ==
    IF sp = NONE THEN NONE
    ELSE IF outcome.kind # "ok" THEN NONE
    ELSE IF Falsy(outcome.json) THEN NONE
    ELSE _format_spotify_track(outcome.json)

\* outcome: what sp.search produces
search_spotify(sp, outcome) ==
    IF sp = NONE THEN << >>
    ELSE IF outcome.kind # "ok" THEN << >>
    ELSE SeqFilter(MapSeq(outcome.items, _format_spotify_track), NotNone)

EARLY_EXIT_MS == 5000
ACCEPT_MS == 10000
YT_MAX_DIFF_MS == 15000
SC_SEARCH_LIMIT == 5
\* float('inf')
Inf == 1000000000

\* line 139: the scan stops at this candidate
EarlyExit_tight(duration_diff) == duration_diff <= 2000
EarlyExit(duration_diff) == duration_diff <= EARLY_EXIT_MS

\* line 142: the selected candidate's stream is resolved
AcceptMatch_wide(best, min_diff) == best # NONE /\ min_diff <= YT_MAX_DIFF_MS
AcceptMatch(best, min_diff) == best # NONE /\ min_diff <= ACCEPT_MS

\* lines 182-187: both handlers return an error record
OnException_reraise(kind) == RAISED
OnException(kind) ==
    IF kind = "SpotifyException" THEN [error |-> "Spotify API error"]
    ELSE [error |-> "Unexpected error"]

\* lines 173-177
PreviewResult_audio(track_info) ==
    [url |-> track_info.preview_url, type |-> "audio", source |-> "spotify"]
PreviewResult(track_info) ==
    [url |-> track_info.preview_url, type |-> "audio_preview", source |-> "spotify"]

\* an embed result is never returned: the resolver goes on to the preview
YoutubeDecision_audioonly(stream, spotify_duration_ms, yt_details) ==
    IF ~Falsy(stream) /\ TruthyStr(stream, "url") /\ stream.type = "audio"
    THEN "return"
    ELSE "continue"

\* lines 154-169: "return" the Video stream, or "continue" to the preview step;
\* yt_details is what get_youtube_track_details returns for the stream's videoId
YoutubeDecision(stream, spotify_duration_ms, yt_details) ==
    IF ~Falsy(stream) /\ TruthyStr(stream, "url")
    THEN IF TruthyStr(stream, "videoId")
         THEN IF yt_details # NONE /\ TruthyInt(yt_details, "durationMs")
              THEN IF Abs(yt_details.durationMs - spotify_duration_ms) > YT_MAX_DIFF_MS
                   THEN "continue" ELSE "return"
              ELSE "return"
         ELSE "return"
    ELSE "continue"

\* ------------------------------------------------------------ main.py
Supported == {"soundcloud", "youtube", "spotify"}

\* lines 78-85: the branch of search taken for a platform
search_branch_fallthrough(platform) ==
    IF platform = "soundcloud" THEN "soundcloud"
    ELSE IF platform = "youtube" THEN "youtube"
    ELSE "spotify"
search_branch(platform) ==
    IF platform = "soundcloud" THEN "soundcloud"
    ELSE IF platform = "youtube" THEN "youtube"
    ELSE IF platform = "spotify" THEN "spotify"
    ELSE "unsupported"

\* lines 107-114: the branch of get_stream taken for a platform
get_stream_branch(platform) ==
    IF platform = "soundcloud" THEN "soundcloud"
    ELSE IF platform = "youtube" THEN "youtube"
    ELSE IF platform = "spotify" THEN "spotify"
    ELSE "unsupported"

\* lines 90-103: get_track has no else branch; every platform that returns
\* nothing from its branch reaches the final return
get_track_branch(platform) ==
    IF platform = "soundcloud" THEN "soundcloud"
    ELSE IF platform = "youtube" THEN "youtube"
    ELSE IF platform = "spotify" THEN "spotify"
    ELSE "fallthrough"

\* lines 115-117
StreamResponse(stream) ==
    IF stream = RAISED THEN RAISED
    ELSE IF ~Falsy(stream) THEN stream
    ELSE [error |-> "Stream not available"]

\* ------------------------------------------------------------ upstream
\* catalog names a caller may send
Platforms == Supported \cup {"unknown", "Spotify", ""}

RawDurations == {0, 192000, 201000, 203000, 205000, 208000, 210900, 215000}
SpotifyDurations == {200000, 0}

Progressive == [format |-> [protocol |-> "progressive"], url |-> "https://manifest"]
ProgressiveNoUrl == [format |-> [protocol |-> "progressive"]]
Hls == [format |-> [protocol |-> "hls"], url |-> "https://hls"]

\* Upload-catalog records of a search made by the resolver: ids are distinct
ScCandidate(i, d) == [id |-> i, title |-> "t", duration |-> d, streamable |-> TRUE]
ScCandidateLists(n) ==
    UNION {{[i \in 1..k |-> ScCandidate(i, f[i])] : f \in [1..k -> RawDurations]} : k \in 0..n}

\* Upload-catalog records of a search made through the search endpoint
ScRecords ==
    {[id |-> 1, title |-> "t", duration |-> 200500, streamable |-> TRUE],
     [title |-> "t", duration |-> 200500, streamable |-> TRUE],
     [id |-> 0, title |-> "t", duration |-> 200500, streamable |-> TRUE],
     [id |-> 2, duration |-> 61000, media |-> [transcodings |-> <<Hls, Progressive>>]],
     [id |-> 3, title |-> "t", duration |-> 200500, media |-> [transcodings |-> <<Hls>>]],
     [id |-> 4, title |-> "t", streamable |-> TRUE, media |-> NONE],
     [id |-> 5, title |-> "t", streamable |-> FALSE,
      media |-> [transcodings |-> <<ProgressiveNoUrl>>]]}

ScSearchOutcomes(lists) ==
    {[kind |-> "RequestException"], [kind |-> "JSONDecodeError"]}
        \cup {[kind |-> "ok", collection |-> l] : l \in lists}

ScTrackJson ==
    {NONE, EMPTY, NOT_DICT,
     [id |-> 1, streamable |-> TRUE],
     [id |-> 1, streamable |-> TRUE, media |-> NONE],
     [id |-> 1, media |-> [transcodings |-> <<Hls>>]],
     [id |-> 1, media |-> [transcodings |-> <<ProgressiveNoUrl>>]],
     [id |-> 1, title |-> "t", duration |-> 200500,
      media |-> [transcodings |-> <<Hls, Progressive>>]]}
ScHop1 ==
    {[kind |-> "RequestException"], [kind |-> "JSONDecodeError"]}
        \cup {[kind |-> "ok", json |-> j] : j \in ScTrackJson}
ScHop2 ==
    {[kind |-> "RequestException"], [kind |-> "JSONDecodeError"]}
        \cup {[kind |-> "ok", json |-> j] :
                 j \in {NOT_DICT, [expires |-> 1], [url |-> "https://cf-media/a.mp3"]}}

\* the Video catalog: length in seconds of each video
YtLength(v) == CASE v = "v1" -> 200 [] v = "v2" -> 230 [] v = "v3" -> 301 [] OTHER -> 200
YtItem(v) == [videoId |-> v, title |-> "t", artists |-> <<[name |-> "A"]>>,
              duration |-> <<YtLength(v) \div 60, YtLength(v) % 60>>]
YtItems ==
    {YtItem("v1"), YtItem("v2"), YtItem("v3"),
     [videoId |-> "v4", title |-> "t", artist |-> "A"],
     [title |-> "t", duration |-> <<3, 20>>]}
YtSearchOutcomes ==
    {[kind |-> "Exception"]}
        \cup {[kind |-> "ok", results |-> l] : l \in SeqsUpTo(YtItems, MaxItems)}
\* results of a search made through the search endpoint: also a video of
\* exactly the cap, durations of one part ("45") and of three ("1:00:01")
YtEndpointItems ==
    YtItems \cup
        {[videoId |-> "v5", title |-> "t", artists |-> <<[name |-> "A"]>>,
          duration |-> <<5, 0>>],
         [videoId |-> "v6", title |-> "t", duration |-> <<1, 0, 1>>],
         [videoId |-> "v7", title |-> "t", duration |-> <<45>>]}
YtEndpointOutcomes ==
    {[kind |-> "Exception"]}
        \cup {[kind |-> "ok", results |-> l] : l \in SeqsUpTo(YtEndpointItems, MaxItems)}
YtInfo ==
    {[kind |-> "DownloadError"]}
        \cup {[kind |-> "ok", json |-> j] :
                 j \in {NONE, [title |-> "t", duration |-> 200],
                        [title |-> "t", duration |-> 200, url |-> "https://audio"]}}
\* what ytmusic.get_song and extract_info say about a video of the catalog
YtSong(v) ==
    {[kind |-> "Exception"], [kind |-> "ok", json |-> NONE],
     [kind |-> "ok", json |-> [videoDetails |-> [lengthSeconds |-> YtLength(v), title |-> "t"]]]}
YtVideoInfo(v) ==
    {[kind |-> "DownloadError"], [kind |-> "ok", json |-> NONE],
     [kind |-> "ok", json |-> [title |-> "t", duration |-> YtLength(v)]]}

\* thumbnail entries: sized ones (two of equal area), urls with and without a
\* quality label, a label in an upper-case id, an entry without url, string
\* entries, and entries whose width or id is null
ThumbEntries ==
    {[url |-> "a", width |-> 100, height |-> 100],
     [url |-> "b", width |-> 640, height |-> 480],
     [url |-> "c", width |-> 480, height |-> 640],
     [url |-> "https://i/default.jpg"],
     [url |-> "https://i/hqdefault.jpg"],
     [url |-> "https://i/maxresdefault.jpg", width |-> 1280],
     [url |-> "https://i/x.jpg", id |-> "HQDEFAULT"],
     [id |-> "maxresdefault"],
     [url |-> "https://i/y.jpg"],
     [str |-> "https://i/mqdefault.jpg"],
     [str |-> "mqdefault"],
     [url |-> "n", height |-> 10, nulls |-> {"width"}],
     [url |-> "https://i/z.jpg", nulls |-> {"id"}]}
ThumbLists == SeqsUpTo(ThumbEntries, MaxThumbs)

\* answers of the two details tiers, each with lengths below, at and above the cap
DetailsLengths == {200, 300, 301}
DetailsSongAnswers ==
    {[kind |-> "Exception"], [kind |-> "ok", json |-> NONE],
     [kind |-> "ok", json |-> [playabilityStatus |-> "ERROR"]],
     [kind |-> "ok", json |-> [videoDetails |-> [title |-> "api"]]]}
        \cup {[kind |-> "ok",
               json |-> [videoDetails |-> [lengthSeconds |-> n, title |-> "api"]]] :
                 n \in DetailsLengths}
DetailsInfoAnswers ==
    {[kind |-> "DownloadError"], [kind |-> "ok", json |-> NONE],
     [kind |-> "ok", json |-> [title |-> "extractor"]]}
        \cup {[kind |-> "ok", json |-> [title |-> "extractor", duration |-> n]] :
                 n \in DetailsLengths}

SpTrack(d, preview) ==
    [type |-> "track", id |-> "s1", name |-> "T",
     artists |-> <<[name |-> "B"], [name |-> "A"]>>, duration_ms |-> d]
        @@ (IF preview THEN [preview_url |-> "https://preview"] ELSE EMPTY)
SpTracks ==
    {SpTrack(d, p) : d \in SpotifyDurations, p \in BOOLEAN}
        \cup {[type |-> "episode", id |-> "s2", name |-> "T"],
              [type |-> "track", name |-> "T", duration_ms |-> 200000],
              [type |-> "track", id |-> "", name |-> "T"]}
SpTrackOutcomes ==
    {[kind |-> "SpotifyException"], [kind |-> "Exception"]}
        \cup {[kind |-> "ok", json |-> t] : t \in SpTracks \cup {NONE, EMPTY, NOT_DICT}}
SpItems ==
    {SpTrack(200000, TRUE),
     [type |-> "episode", id |-> "s2", name |-> "T"],
     [type |-> "track", name |-> "T", duration_ms |-> 200000],
     [type |-> "track", id |-> "", name |-> "T"],
     [type |-> "track", id |-> "s3", artists |-> <<[name |-> "A"]>>,
      duration_ms |-> 61999]}
SpSearchOutcomes ==
    {[kind |-> "SpotifyException"], [kind |-> "Exception"]}
        \cup {[kind |-> "ok", items |-> l] : l \in SeqsUpTo(SpItems, MaxItems)}

\* ---- what clients of the auth and profile endpoints send
Emails == {"a@x", "b@x"}
\* handles: upper and lower case of one name, another name ending in a
\* newline, and one with a space
RegisterHandles == {<<"A">>, <<"a">>, <<"b", "_", "\n">>}
RegisterBodies ==
    {[email |-> e, password |-> "p", handle |-> h] : e \in Emails, h \in RegisterHandles}
        \cup {[email |-> "b@x", password |-> "p", handle |-> <<"1", " ">>],
              [email |-> "b@x", password |-> "p", handle |-> << >>],
              [email |-> "b@x", handle |-> <<"a">>]}
LoginBodies ==
    {[email |-> "a@x", password |-> "p"], [email |-> "a@x", password |-> "wrong"],
     [email |-> "a@x"]}
\* a profile update names a handle (the empty one included) or none
ProfileBodies ==
    {[handle |-> h] : h \in {<<"A">>, <<"a", " ">>, << >>}} \cup {[displayName |-> "n"]}

\* ------------------------------------------------------------ state
VARIABLES
    env,                  \* what the process environment configures
    _spotify_client,      \* spotify.py module global
    pc,                   \* position of the request being served
    request,              \* the endpoint called and its catalog name
    calls,                \* adapter and upstream calls issued, in order
    upstream,             \* the upstream payload of the last search
    response,             \* what the endpoint handler returns
    ret,                  \* what get_spotify_stream_url returns
    track_info_spotify, simplified_track,
    sc_results, scan_i, best_sc_match, min_duration_diff,
    sc_stream_data, yt_stream_data, yt_video_id,
    applied,              \* the adapter function last applied on its own, with
                          \* its arguments, the upstream answers and its result
    threads,              \* per worker thread: its position in get_spotify_client
                          \* and what the call returned
    constructions,        \* spotipy.Spotify objects constructed so far
    returned,             \* the non-null clients callers have been handed
    users, profiles,      \* the store: users/{userId}, profiles/{userId}
    sessions,             \* the store: sessions/{userId}/{sessionId}
    now,                  \* what datetime.utcnow() reads, in seconds
    ids,                  \* uuid4 values drawn so far
    auth,                 \* the auth or profile request served last, and its answer
    history,              \* tokens handed to clients, redeemed and logged out
    inflight              \* refresh requests between their store accesses

vars == <<env, _spotify_client, pc, request, calls, upstream, response, ret,
          track_info_spotify, simplified_track, sc_results, scan_i, best_sc_match,
          min_duration_diff, sc_stream_data, yt_stream_data, yt_video_id, applied,
          threads, constructions, returned,
          users, profiles, sessions, now, ids, auth, history, inflight>>

thread_state == <<threads, constructions, returned>>
store_state == <<users, profiles, sessions, now, ids, auth, history, inflight>>

resolver_locals == <<track_info_spotify, simplified_track, sc_results, scan_i,
                     best_sc_match, min_duration_diff, sc_stream_data, yt_stream_data,
                     yt_video_id>>

NoPayload == [kind |-> "none"]
\* the threads of the framework's pool that serve the synchronous endpoints
Threads == 1..MaxThreads
ThreadIdle == [pc |-> "idle", calls |-> 0, ret |-> NONE]
\* no auth or profile request has been served yet
NoRequest == [seq |-> 0, op |-> "none"]
\* refresh requests that may be served at the same time
Refreshers == 1..MaxRefreshers
RefresherIdle == [pc |-> "idle"]
NotApplied == [fn |-> "none"]

Init ==
    /\ env \in [spotify_configured : BOOLEAN, soundcloud_client_id : BOOLEAN,
                ytmusic : BOOLEAN]
    /\ _spotify_client = NONE
    /\ pc = "idle"
    /\ request = [op |-> "", platform |-> ""]
    /\ calls = << >>
    /\ upstream = NoPayload
    /\ response = NONE
    /\ ret = NONE
    /\ track_info_spotify = NONE
    /\ simplified_track = NONE
    /\ sc_results = << >>
    /\ scan_i = 1
    /\ best_sc_match = NONE
    /\ min_duration_diff = Inf
    /\ sc_stream_data = NONE
    /\ yt_stream_data = NONE
    /\ yt_video_id = NoVideoId
    /\ applied = NotApplied
    /\ threads = [t \in Threads |-> ThreadIdle]
    /\ constructions = 0
    /\ returned = {}
    /\ users = << >>
    /\ profiles = << >>
    /\ sessions = << >>
    /\ now = 0
    /\ ids = 0
    /\ auth = NoRequest
    /\ history = [issued |-> {}, redeemed |-> {}, logged_out |-> {}]
    /\ inflight = [r \in Refreshers |-> RefresherIdle]

\* ------------------------------------------------------------ endpoints
\* POST /search/{platform}
search ==
    /\ pc = "idle"
    /\ \E platform \in Platforms, constructed \in BOOLEAN :
        LET branch == search_branch(platform)
            sp == get_spotify_client(_spotify_client, env.spotify_configured, constructed)
        IN  /\ request' = [op |-> "search", platform |-> platform]
            /\ \/ /\ branch = "soundcloud"
                  /\ \E o \in ScSearchOutcomes(SeqsUpTo(ScRecords, MaxCands)) :
                        /\ upstream' = o
                        /\ response' =
                             [results |-> search_soundcloud(env.soundcloud_client_id, o)]
                  /\ calls' = Append(calls, <<"search_soundcloud", "q">>)
                  /\ UNCHANGED _spotify_client
               \/ /\ branch = "youtube"
                  /\ \E o \in YtEndpointOutcomes :
                        /\ upstream' = o
                        /\ response' = [results |-> search_youtube(env.ytmusic, o)]
                  /\ calls' = Append(calls, <<"search_youtube", "q">>)
                  /\ UNCHANGED _spotify_client
               \/ /\ branch = "spotify"
                  /\ \E o \in SpSearchOutcomes :
                        /\ upstream' = o
                        /\ response' = [results |-> search_spotify(sp, o)]
                  /\ calls' = Append(calls, <<"search_spotify", "q">>)
                  /\ _spotify_client' = sp
               \/ /\ branch = "unsupported"
                  /\ response' = [error |-> "Unsupported platform"]
                  /\ UNCHANGED <<calls, upstream, _spotify_client>>
    /\ pc' = "done"
    /\ UNCHANGED <<thread_state, store_state, applied, env, ret, resolver_locals>>

\* GET /track/{platform}/{track_id}
get_track ==
    /\ pc = "idle"
    /\ \E platform \in Platforms, constructed \in BOOLEAN :
        LET branch == get_track_branch(platform)
            sp == get_spotify_client(_spotify_client, env.spotify_configured, constructed)
        IN  /\ request' = [op |-> "track", platform |-> platform]
            /\ \/ /\ branch = "soundcloud"
                  /\ \E o \in ScHop1 :
                        LET details ==
                                get_soundcloud_track_details(env.soundcloud_client_id, o)
                        IN  /\ upstream' = o
                            /\ response' =
                                 IF ~Falsy(details) THEN format_soundcloud_track(details)
                                 ELSE [error |-> "Track not found"]
                  /\ calls' = Append(calls, <<"get_soundcloud_track_details", "t1">>)
                  /\ UNCHANGED _spotify_client
               \/ /\ branch = "youtube"
                  /\ \E v \in {"v1", "v3"} : \E song \in YtSong(v), info \in YtVideoInfo(v) :
                        LET details == get_youtube_track_details(v, env.ytmusic, song, info)
                        IN  /\ upstream' = song
                            /\ calls' = Append(calls, <<"get_youtube_track_details", v>>)
                            /\ response' =
                                 IF ~Falsy(details) THEN details
                                 ELSE [error |-> "Track not found"]
                  /\ UNCHANGED _spotify_client
               \/ /\ branch = "spotify"
                  /\ \E o \in SpTrackOutcomes :
                        LET details == get_spotify_track_details(sp, o)
                        IN  /\ upstream' = o
                            /\ response' =
                                 IF ~Falsy(details) THEN details
                                 ELSE [error |-> "Track not found"]
                  /\ calls' = Append(calls, <<"get_spotify_track_details", "s1">>)
                  /\ _spotify_client' = sp
               \/ /\ branch = "fallthrough"
                  /\ response' = [error |-> "Track not found"]
                  /\ UNCHANGED <<calls, upstream, _spotify_client>>
    /\ pc' = "done"
    /\ UNCHANGED <<thread_state, store_state, applied, env, ret, resolver_locals>>

\* GET /track/{platform}/{track_id}/stream; the licensed catalog enters the resolver
get_stream ==
    /\ pc = "idle"
    /\ \E platform \in Platforms :
        LET branch == get_stream_branch(platform)
        IN  /\ request' = [op |-> "stream", platform |-> platform]
            /\ \/ /\ branch = "soundcloud"
                  /\ \E hop1 \in ScHop1, hop2 \in ScHop2 :
                        /\ upstream' = hop1
                        /\ response' = StreamResponse(
                             get_soundcloud_stream_url(env.soundcloud_client_id, hop1, hop2))
                  /\ calls' = Append(calls, <<"get_soundcloud_stream_url", "t1">>)
                  /\ pc' = "done"
               \/ /\ branch = "youtube"
                  /\ \E info \in YtInfo :
                        /\ upstream' = info
                        /\ response' = StreamResponse(
                             get_stream_url("v1", "", env.ytmusic, NoPayload, info))
                  /\ calls' = Append(calls, <<"get_stream_url", "v1">>)
                  /\ pc' = "done"
               \/ /\ branch = "spotify"
                  /\ calls' = Append(calls, <<"get_spotify_stream_url", "s1">>)
                  /\ pc' = "r_client"
                  /\ UNCHANGED <<upstream, response>>
               \/ /\ branch = "unsupported"
                  /\ response' = [error |-> "Unsupported platform"]
                  /\ pc' = "done"
                  /\ UNCHANGED <<calls, upstream>>
    /\ UNCHANGED <<thread_state, store_state, applied, env, _spotify_client, ret, resolver_locals>>

\* main.py lines 115-117, after get_spotify_stream_url has returned
get_stream_return ==
    /\ pc = "r_return"
    /\ response' = StreamResponse(ret)
    /\ pc' = "done"
    /\ UNCHANGED <<thread_state, store_state, applied, env, _spotify_client, request, calls, upstream, ret, resolver_locals>>

\* ------------------------------------------------------------ resolver
Return(value) == ret' = value /\ pc' = "r_return"

\* the lookup is attempted although no client is configured
Resolver_GetClient_continue ==
    /\ pc = "r_client"
    /\ \E constructed \in BOOLEAN :
        _spotify_client' =
            get_spotify_client(_spotify_client, env.spotify_configured, constructed)
    /\ pc' = "r_track"
    /\ UNCHANGED <<thread_state, store_state, applied, env, request, calls, upstream, response, ret, resolver_locals>>

\* spotify.py lines 108-110
Resolver_GetClient ==
    /\ pc = "r_client"
    /\ \E constructed \in BOOLEAN :
        LET sp == get_spotify_client(_spotify_client, env.spotify_configured, constructed)
        IN  /\ _spotify_client' = sp
            /\ IF sp = NONE THEN Return([error |-> "Spotify client not configured."])
               ELSE pc' = "r_track" /\ UNCHANGED ret
    /\ UNCHANGED <<thread_state, store_state, applied, env, request, calls, upstream, response, resolver_locals>>

\* spotify.py lines 113-125
Resolver_Track ==
    /\ pc = "r_track"
    /\ calls' = Append(calls, <<"sp.track", "s1">>)
    /\ \E o \in SpTrackOutcomes :
        IF o.kind # "ok"
        THEN Return(OnException(o.kind)) /\ UNCHANGED <<track_info_spotify, simplified_track>>
        ELSE IF Falsy(o.json)
        THEN /\ Return([error |-> "Spotify track ID not found."])
             /\ UNCHANGED <<track_info_spotify, simplified_track>>
        ELSE /\ track_info_spotify' = o.json
             /\ simplified_track' = SimplifiedSpotifyTrack(o.json)
             /\ IF simplified_track' = NONE
                THEN Return([error |-> "Could not format Spotify track details for search."])
                ELSE pc' = "r_sc_search" /\ UNCHANGED ret
    /\ UNCHANGED <<thread_state, store_state, applied, env, _spotify_client, request, upstream, response, sc_results, scan_i,
                   best_sc_match, min_duration_diff, sc_stream_data, yt_stream_data,
                   yt_video_id>>

sc_query == simplified_track.artist \o " " \o simplified_track.name
yt_query == simplified_track.artist \o " - " \o simplified_track.name

\* spotify.py lines 127-132
Resolver_ScSearch ==
    /\ pc = "r_sc_search"
    /\ calls' = Append(calls, <<"search_soundcloud", sc_query, SC_SEARCH_LIMIT>>)
    /\ \E o \in ScSearchOutcomes(ScCandidateLists(Min(SC_SEARCH_LIMIT, MaxCands))) :
        /\ sc_results' = search_soundcloud(env.soundcloud_client_id, o)
        /\ pc' = IF sc_results' # << >> THEN "r_scan" ELSE "r_yt"
    /\ scan_i' = 1
    /\ best_sc_match' = NONE
    /\ min_duration_diff' = Inf
    /\ UNCHANGED <<thread_state, store_state, applied, env, _spotify_client, request, upstream, response, ret,
                   track_info_spotify, simplified_track, sc_stream_data, yt_stream_data,
                   yt_video_id>>

DurationDiff(sc_track) == Abs(sc_track.duration * 1000 - simplified_track.duration_ms)

\* a candidate as close as the best so far replaces it
Resolver_ScanStep_lastwins ==
    /\ pc = "r_scan"
    /\ LET sc_track == sc_results[scan_i]
           duration_diff == DurationDiff(sc_track)
       IN  /\ IF duration_diff <= min_duration_diff
              THEN min_duration_diff' = duration_diff /\ best_sc_match' = sc_track
              ELSE UNCHANGED <<min_duration_diff, best_sc_match>>
           /\ scan_i' = scan_i + 1
           /\ pc' = IF EarlyExit(duration_diff) \/ scan_i = Len(sc_results)
                    THEN "r_accept" ELSE "r_scan"
    /\ UNCHANGED <<thread_state, store_state, applied, env, _spotify_client, request, calls, upstream, response, ret,
                   track_info_spotify, simplified_track, sc_results, sc_stream_data,
                   yt_stream_data, yt_video_id>>

\* spotify.py lines 133-140: one iteration of the scan over sc_results
Resolver_ScanStep ==
    /\ pc = "r_scan"
    /\ LET sc_track == sc_results[scan_i]
           duration_diff == DurationDiff(sc_track)
       IN  /\ IF duration_diff < min_duration_diff
              THEN min_duration_diff' = duration_diff /\ best_sc_match' = sc_track
              ELSE UNCHANGED <<min_duration_diff, best_sc_match>>
           /\ scan_i' = scan_i + 1
           /\ pc' = IF EarlyExit(duration_diff) \/ scan_i = Len(sc_results)
                    THEN "r_accept" ELSE "r_scan"
    /\ UNCHANGED <<thread_state, store_state, applied, env, _spotify_client, request, calls, upstream, response, ret,
                   track_info_spotify, simplified_track, sc_results, sc_stream_data,
                   yt_stream_data, yt_video_id>>

\* spotify.py lines 142-144.  sc_results and the loop index are not read after
\* the scan, so they are dropped here.
Resolver_Accept ==
    /\ pc = "r_accept"
    /\ pc' = IF AcceptMatch(best_sc_match, min_duration_diff) THEN "r_sc_stream" ELSE "r_yt"
    /\ sc_results' = << >>
    /\ scan_i' = 1
    /\ UNCHANGED <<thread_state, store_state, applied, env, _spotify_client, request, calls, upstream, response, ret,
                   track_info_spotify, simplified_track, best_sc_match, min_duration_diff,
                   sc_stream_data, yt_stream_data, yt_video_id>>

\* a failed Upload stream resolution is tried again
Resolver_ScStream_retry ==
    /\ pc = "r_sc_stream"
    /\ calls' = Append(calls, <<"get_soundcloud_stream_url", best_sc_match.id>>)
    /\ \E hop1 \in ScHop1, hop2 \in ScHop2 :
        /\ sc_stream_data' = get_soundcloud_stream_url(env.soundcloud_client_id, hop1, hop2)
        /\ IF sc_stream_data' = RAISED THEN Return(OnException("AttributeError"))
           ELSE IF ~Falsy(sc_stream_data') /\ TruthyStr(sc_stream_data', "url")
           THEN Return(sc_stream_data')
           ELSE pc' = "r_sc_stream" /\ UNCHANGED ret
    /\ UNCHANGED <<thread_state, store_state, applied, env, _spotify_client, request, upstream, response,
                   track_info_spotify, simplified_track, sc_results, scan_i, best_sc_match,
                   min_duration_diff, yt_stream_data, yt_video_id>>

\* the stream of the Upload candidate is resolved but not returned
Resolver_ScStream_noreturn ==
    /\ pc = "r_sc_stream"
    /\ calls' = Append(calls, <<"get_soundcloud_stream_url", best_sc_match.id>>)
    /\ \E hop1 \in ScHop1, hop2 \in ScHop2 :
        /\ sc_stream_data' = get_soundcloud_stream_url(env.soundcloud_client_id, hop1, hop2)
        /\ IF sc_stream_data' = RAISED THEN Return(OnException("AttributeError"))
           ELSE pc' = "r_yt" /\ UNCHANGED ret
    /\ UNCHANGED <<thread_state, store_state, applied, env, _spotify_client, request, upstream, response, track_info_spotify,
                   simplified_track, sc_results, scan_i, best_sc_match, min_duration_diff,
                   yt_stream_data, yt_video_id>>

\* spotify.py lines 145-148
Resolver_ScStream ==
    /\ pc = "r_sc_stream"
    /\ calls' = Append(calls, <<"get_soundcloud_stream_url", best_sc_match.id>>)
    /\ \E hop1 \in ScHop1, hop2 \in ScHop2 :
        /\ sc_stream_data' = get_soundcloud_stream_url(env.soundcloud_client_id, hop1, hop2)
        /\ IF sc_stream_data' = RAISED THEN Return(OnException("AttributeError"))
           ELSE IF ~Falsy(sc_stream_data') /\ TruthyStr(sc_stream_data', "url")
           THEN Return(sc_stream_data')
           ELSE pc' = "r_yt" /\ UNCHANGED ret
    /\ UNCHANGED <<thread_state, store_state, applied, env, _spotify_client, request, upstream, response, track_info_spotify,
                   simplified_track, sc_results, scan_i, best_sc_match, min_duration_diff,
                   yt_stream_data, yt_video_id>>

\* spotify.py lines 150-169; the details lookup of line 156 is issued only for
\* a stream record that carries a videoId
Resolver_Youtube ==
    /\ pc = "r_yt"
    /\ \E found \in YtSearchOutcomes, info \in YtInfo :
        /\ yt_video_id' = StreamVideoId(NoVideoId, env.ytmusic, found)
        /\ yt_stream_data' = get_stream_url(NoVideoId, yt_query, env.ytmusic, found, info)
        /\ calls' =
             IF ~Falsy(yt_stream_data') /\ TruthyStr(yt_stream_data', "videoId")
             THEN Append(Append(calls, <<"get_youtube_stream_url", yt_query>>),
                         <<"get_youtube_track_details", yt_stream_data'.videoId>>)
             ELSE Append(calls, <<"get_youtube_stream_url", yt_query>>)
        /\ IF ~Falsy(yt_stream_data') /\ TruthyStr(yt_stream_data', "videoId")
           THEN \E song \in YtSong(yt_video_id'), vinfo \in YtVideoInfo(yt_video_id') :
                   IF YoutubeDecision(yt_stream_data', simplified_track.duration_ms,
                          get_youtube_track_details(yt_stream_data'.videoId, env.ytmusic,
                                                    song, vinfo)) = "return"
                   THEN Return(yt_stream_data')
                   ELSE pc' = "r_preview" /\ UNCHANGED ret
           ELSE IF YoutubeDecision(yt_stream_data', simplified_track.duration_ms, NONE)
                      = "return"
                THEN Return(yt_stream_data')
                ELSE pc' = "r_preview" /\ UNCHANGED ret
    /\ UNCHANGED <<thread_state, store_state, applied, env, _spotify_client, request, upstream, response, track_info_spotify,
                   simplified_track, sc_results, scan_i, best_sc_match, min_duration_diff,
                   sc_stream_data>>

\* spotify.py lines 171-180
Resolver_Preview ==
    /\ pc = "r_preview"
    /\ IF TruthyStr(track_info_spotify, "preview_url")
       THEN Return(PreviewResult(track_info_spotify))
       ELSE Return([error |-> "No streamable source found for this Spotify track."])
    /\ UNCHANGED <<thread_state, store_state, applied, env, _spotify_client, request, calls, upstream, response,
                   resolver_locals>>

Next ==
    \/ search
    \/ get_track
    \/ get_stream
    \/ get_stream_return
    \/ Resolver_GetClient
    \/ Resolver_Track
    \/ Resolver_ScSearch
    \/ Resolver_ScanStep
    \/ Resolver_Accept
    \/ Resolver_ScStream
    \/ Resolver_Youtube
    \/ Resolver_Preview

Spec == Init /\ [][Next]_vars

\* ------------------------------------------------------------ adapters alone
\* The adapter functions applied on their own, once per behaviour, to every
\* upstream answer of the bounded domains, under each configuration of the
\* process environment.
request_state == <<_spotify_client, pc, request, calls, upstream, response, ret,
                   resolver_locals>>

\* the search_query_override arguments: none, and the resolver's query
StreamQueries == {"", "A - T"}

\* youtube.py get_stream_url
Apply_get_stream_url ==
    /\ applied = NotApplied
    /\ \E video_id \in {NoVideoId, "v1"}, search_query_override \in StreamQueries,
          found \in YtSearchOutcomes, info \in YtInfo :
          applied' = [fn |-> "get_stream_url",
                      video_id |-> video_id,
                      search_query_override |-> search_query_override,
                      found |-> found,
                      info |-> info,
                      result |-> get_stream_url(video_id, search_query_override,
                                                env.ytmusic, found, info)]
    /\ UNCHANGED <<thread_state, store_state, env, request_state>>

\* youtube.py _get_best_thumbnail
Apply_get_best_thumbnail ==
    /\ applied = NotApplied
    /\ \E thumbnails \in ThumbLists :
          applied' = [fn |-> "_get_best_thumbnail",
                      thumbnails |-> thumbnails,
                      result |-> _get_best_thumbnail(thumbnails)]
    /\ UNCHANGED <<thread_state, store_state, env, request_state>>

\* youtube.py get_youtube_track_details
Apply_get_youtube_track_details ==
    /\ applied = NotApplied
    /\ \E video_id \in {"v1", "v3"}, song \in DetailsSongAnswers,
          info \in DetailsInfoAnswers :
          applied' = [fn |-> "get_youtube_track_details",
                      video_id |-> video_id,
                      song |-> song,
                      info |-> info,
                      lookups |-> DetailsLookups(video_id, env.ytmusic, song),
                      result |-> get_youtube_track_details(video_id, env.ytmusic,
                                                           song, info)]
    /\ UNCHANGED <<thread_state, store_state, env, request_state>>

AdapterNext ==
    \/ Apply_get_stream_url
    \/ Apply_get_youtube_track_details
    \/ Apply_get_best_thumbnail

AdapterSpec == Init /\ [][AdapterNext]_vars

\* ------------------------------------------------------------ client threads
\* get_spotify_client called from the endpoints main.py declares with def, which
\* the framework runs on pool threads.  A step is one access to the module
\* global (a read at lines 18, 19 and 32, a write at lines 30 and 35), the
\* thread-local work before it included.
SpotifyInstance(n) == [client |-> "spotipy", instance |-> n]
client_frame == <<env, pc, request, calls, upstream, response, ret, resolver_locals,
                  applied>>

\* a thread enters get_spotify_client
Client_Call ==
    /\ \E t \in Threads :
        /\ threads[t].pc \in {"idle", "done"}
        /\ threads[t].calls < MaxClientCalls
        /\ threads' = [threads EXCEPT ![t] =
                          [pc |-> "check", calls |-> @.calls + 1, ret |-> NONE]]
    /\ UNCHANGED <<_spotify_client, constructions, returned, client_frame, store_state>>

\* line 18, and lines 21-26 when the global is None
Client_Check ==
    /\ \E t \in Threads :
        /\ threads[t].pc = "check"
        /\ threads' = [threads EXCEPT ![t].pc =
                          IF _spotify_client # NONE THEN "return"
                          ELSE IF ~env.spotify_configured THEN "done"
                          ELSE "construct"]
    /\ UNCHANGED <<_spotify_client, constructions, returned, client_frame, store_state>>

\* lines 29-30: the two constructors, then the store to the global; a
\* constructor that raises leads to line 33
Client_Construct ==
    /\ \E t \in Threads, constructed \in BOOLEAN :
        /\ threads[t].pc = "construct"
        /\ IF constructed
           THEN /\ constructions' = constructions + 1
                /\ _spotify_client' = SpotifyInstance(constructions + 1)
                /\ threads' = [threads EXCEPT ![t].pc = "return"]
           ELSE /\ threads' = [threads EXCEPT ![t].pc = "except"]
                /\ UNCHANGED <<_spotify_client, constructions>>
    /\ UNCHANGED <<returned, client_frame, store_state>>

\* lines 19 and 32: return _spotify_client reads the global again
Client_Return ==
    /\ \E t \in Threads :
        /\ threads[t].pc = "return"
        /\ threads' = [threads EXCEPT ![t].pc = "done", ![t].ret = _spotify_client]
        /\ returned' = IF _spotify_client # NONE
                       THEN returned \cup {_spotify_client}
                       ELSE returned
    /\ UNCHANGED <<_spotify_client, constructions, client_frame, store_state>>

\* lines 33-36
Client_Except ==
    /\ \E t \in Threads :
        /\ threads[t].pc = "except"
        /\ _spotify_client' = NONE
        /\ threads' = [threads EXCEPT ![t].pc = "done"]
    /\ UNCHANGED <<constructions, returned, client_frame, store_state>>

ClientNext ==
    \/ Client_Call
    \/ Client_Check
    \/ Client_Construct
    \/ Client_Return
    \/ Client_Except

ClientSpec == Init /\ [][ClientNext]_vars

\* ------------------------------------------------------------ core/auth.py
\* The store is taken as initialised (config.py lines 12-28 succeeded) and the
\* JWT library at its interface: encode signs the payload, decode returns the
\* payload of a token that verifies and has not expired.  Time is what
\* datetime.utcnow() reads, in whole seconds, the resolution of the exp claim
\* of a token.  A token is its payload: HS256 signing is a function of the
\* payload and the payload carries no nonce, so two tokens of one kind made
\* for one user within one second are the same token.
ACCESS_TOKEN_EXPIRE_MINUTES == 15
REFRESH_TOKEN_EXPIRE_DAYS == 7
SECONDS_PER_MINUTE == 60
SECONDS_PER_DAY == 86400
\* timedelta(minutes=ACCESS_TOKEN_EXPIRE_MINUTES), timedelta(days=REFRESH_TOKEN_EXPIRE_DAYS)
AccessLifetime == ACCESS_TOKEN_EXPIRE_MINUTES * SECONDS_PER_MINUTE
RefreshLifetime == REFRESH_TOKEN_EXPIRE_DAYS * SECONDS_PER_DAY

hash_password(password) == [bcrypt |-> password]
verify_password(plain_password, hashed_password) == hashed_password.bcrypt = plain_password

create_access_token(sub, utcnow) ==
    [sub |-> sub, exp |-> utcnow + AccessLifetime, type |-> "access"]
create_refresh_token(sub, utcnow) ==
    [sub |-> sub, exp |-> utcnow + RefreshLifetime, type |-> "refresh"]

\* a string that is no token of this service
MALFORMED == [jwt |-> "malformed"]
\* jwt.decode raises for a string that does not verify and for an expired
\* token; both give None
decode_token(token, utcnow) ==
    IF ~Has(token, "exp") THEN NONE
    ELSE IF token.exp <= utcnow THEN NONE
    ELSE token

\* ------------------------------------------------------------ core/middleware.py
Rejected(status, detail) == [status |-> status, detail |-> detail]
NO_CREDENTIALS == [jwt |-> ""]

\* the token type is not looked at
get_current_user_anytype(credentials, utcnow) ==
    IF credentials = NO_CREDENTIALS
    THEN Rejected(401, "Missing or invalid authorization header")
    ELSE LET payload == decode_token(credentials, utcnow)
         IN  IF payload = NONE
             THEN Rejected(401, "Invalid or expired token")
             ELSE IF ~Has(payload, "sub") THEN Rejected(401, "Invalid token")
             ELSE [status |-> 200, user_id |-> payload.sub]

get_current_user(credentials, utcnow) ==
    IF credentials = NO_CREDENTIALS
    THEN Rejected(401, "Missing or invalid authorization header")
    ELSE LET payload == decode_token(credentials, utcnow)
         IN  IF payload = NONE \/ payload.type # "access"
             THEN Rejected(401, "Invalid or expired token")
             ELSE IF ~Has(payload, "sub") THEN Rejected(401, "Invalid token")
             ELSE [status |-> 200, user_id |-> payload.sub]

\* ------------------------------------------------------------ api/routes.py
\* a handle is the sequence of its characters
HandleClass == {"a", "b", "A", "1", "_", "-"}
LowerChar(c) == IF c = "A" THEN "a" ELSE c
\* the handle is stored as it was typed
handle_lower_astyped(handle) == handle
\* handle.lower()
handle_lower(handle) == [i \in 1..Len(handle) |-> LowerChar(handle[i])]
\* re.match(r'^[a-zA-Z0-9_-]+$', handle): $ also matches before a final newline
HandlePatternMatches(handle) ==
    \/ /\ Len(handle) >= 1
       /\ \A i \in 1..Len(handle) : handle[i] \in HandleClass
    \/ /\ Len(handle) >= 2
       /\ handle[Len(handle)] = "\n"
       /\ \A i \in 1..(Len(handle) - 1) : handle[i] \in HandleClass

\* child(key).set(value) and child(key).delete()
Put(node, key, value) == (key :> value) @@ node
Remove(node, key) == [k \in DOMAIN node \ {key} |-> node[k]]
\* order_by_child('email').equal_to(email).get(), .. ('handle') ..
ByEmail(email) == {u \in DOMAIN users : users[u].email = email}
ByHandle(handle) ==
    {p \in DOMAIN profiles : Has(profiles[p], "handle") /\ profiles[p].handle = handle}
\* sessions_ref.child(user_id).get()
SessionsOf(node, user_id) == {s \in DOMAIN node : node[s].userId = user_id}
\* the sessions the loops of refresh_token and logout can stop at
Matching(node, user_id, refresh_token_value) ==
    {s \in SessionsOf(node, user_id) : node[s].refreshToken = refresh_token_value}

\* not data.get(key), for a text field and for a handle
Missing(data, key) == ~Has(data, key) \/ data[key] = ""
MissingHandle(data) == ~Has(data, "handle") \/ data.handle = << >>

NewSession(session_id, user_id, refresh_token_value, utcnow) ==
    [sessionId |-> session_id,
     userId |-> user_id,
     refreshToken |-> refresh_token_value,
     expiresAt |-> utcnow + RefreshLifetime]

Answer(op, data, result) == [seq |-> auth.seq + 1, op |-> op, req |-> data] @@ result
Tokens(access_token, refresh_token_value) ==
    [status |-> 200, access_token |-> access_token, refresh_token |-> refresh_token_value]
Issue(tokens) == [history EXCEPT !.issued = @ \cup tokens]

\* the tokens a client can send: those handed out so far, and a string that
\* is no token
Presentable == history.issued \cup {MALFORMED}
TokenBodies == {[refresh_token |-> t] : t \in Presentable} \cup {[token |-> "x"]}
Credentials == Presentable \cup {NO_CREDENTIALS}

\* no refresh request is between two of its store accesses
Serving == \A r \in Refreshers : inflight[r].pc \in {"idle", "done"}

\* lines 35-51: the 400 answers of register, or NONE
RegisterRejection(data) ==
    IF Missing(data, "email") \/ Missing(data, "password") \/ MissingHandle(data)
    THEN Rejected(400, "email, password, and handle are required")
    ELSE IF ByEmail(data.email) # {} THEN Rejected(400, "Email already registered")
    ELSE IF ByHandle(handle_lower(data.handle)) # {}
    THEN Rejected(400, "Handle already taken")
    ELSE IF ~HandlePatternMatches(data.handle)
    THEN Rejected(400, "Handle can only contain letters, numbers, underscores, and dashes")
    ELSE NONE

\* POST /auth/register
register ==
    /\ Serving
    /\ auth.seq < MaxRequests
    /\ \E data \in RegisterBodies :
        LET rejection == RegisterRejection(data)
            user_id == ids + 1
            session_id == ids + 2
            access_token == create_access_token(user_id, now)
            refresh_token_value == create_refresh_token(user_id, now)
        IN  IF rejection # NONE
            THEN /\ auth' = Answer("register", data, rejection)
                 /\ UNCHANGED <<users, profiles, sessions, ids, history>>
            ELSE /\ users' = Put(users, user_id,
                                 [userId |-> user_id, email |-> data.email,
                                  passwordHash |-> hash_password(data.password)])
                 /\ profiles' = Put(profiles, user_id,
                                    [id |-> user_id, userId |-> user_id,
                                     handle |-> handle_lower(data.handle)])
                 /\ sessions' = Put(sessions, session_id,
                                    NewSession(session_id, user_id, refresh_token_value, now))
                 /\ ids' = ids + 2
                 /\ history' = Issue({access_token, refresh_token_value})
                 /\ auth' = Answer("register", data,
                                   Tokens(access_token, refresh_token_value))
    /\ UNCHANGED <<now, inflight, thread_state, _spotify_client, client_frame>>

\* POST /auth/login; line 127 names a logger that routes.py never defines, so
\* a wrong password ends in a NameError and the framework answers 500
login ==
    /\ Serving
    /\ auth.seq < MaxRequests
    /\ \E data \in LoginBodies :
        IF Missing(data, "email") \/ Missing(data, "password")
        THEN /\ auth' = Answer("login", data,
                               Rejected(400, "email and password are required"))
             /\ UNCHANGED <<sessions, ids, history>>
        ELSE IF ByEmail(data.email) = {}
        THEN /\ auth' = Answer("login", data, Rejected(401, "Invalid credentials"))
             /\ UNCHANGED <<sessions, ids, history>>
        ELSE \E user_id \in ByEmail(data.email) :
            LET session_id == ids + 1
                access_token == create_access_token(user_id, now)
                refresh_token_value == create_refresh_token(user_id, now)
            IN  IF ~verify_password(data.password, users[user_id].passwordHash)
                THEN /\ auth' = Answer("login", data,
                                       Rejected(500, "Internal Server Error"))
                     /\ UNCHANGED <<sessions, ids, history>>
                ELSE /\ sessions' = Put(sessions, session_id,
                                        NewSession(session_id, user_id,
                                                   refresh_token_value, now))
                     /\ ids' = ids + 1
                     /\ history' = Issue({access_token, refresh_token_value})
                     /\ auth' = Answer("login", data,
                                       Tokens(access_token, refresh_token_value))
    /\ UNCHANGED <<users, profiles, now, inflight, thread_state, _spotify_client,
                   client_frame>>

\* lines 161-177 of refresh_token and 226-237 of logout: the answers given
\* before the sessions are looked through, or NONE
TokenRejection(data, utcnow) ==
    IF ~Has(data, "refresh_token") THEN Rejected(400, "refresh_token is required")
    ELSE LET payload == decode_token(data.refresh_token, utcnow)
         IN  IF payload = NONE \/ payload.type # "refresh"
             THEN Rejected(401, "Invalid refresh token")
             ELSE IF ~Has(payload, "sub") THEN Rejected(401, "Invalid refresh token")
             ELSE NONE

\* lines 161-186: what refresh_token answers without redeeming, or NONE
RefreshRejection(data, utcnow, node) ==
    IF TokenRejection(data, utcnow) # NONE THEN TokenRejection(data, utcnow)
    ELSE IF SessionsOf(node, data.refresh_token.sub) = {}
    THEN Rejected(401, "Session not found")
    ELSE IF Matching(node, data.refresh_token.sub, data.refresh_token) = {}
    THEN Rejected(401, "Invalid refresh token")
    ELSE NONE

\* POST /auth/refresh, served alone; the loop of lines 180-183 stops at the
\* first session with the token, in the store's key order
refresh_token ==
    /\ Serving
    /\ auth.seq < MaxRequests
    /\ \E data \in TokenBodies :
        LET rejection == RefreshRejection(data, now, sessions)
        IN  IF rejection # NONE
            THEN /\ auth' = Answer("refresh", data, rejection)
                 /\ UNCHANGED <<sessions, history>>
            ELSE \E session_id \in Matching(sessions, data.refresh_token.sub,
                                            data.refresh_token) :
                LET user_id == data.refresh_token.sub
                    new_access_token == create_access_token(user_id, now)
                    new_refresh_token == create_refresh_token(user_id, now)
                IN  IF now > sessions[session_id].expiresAt
                    THEN /\ sessions' = Remove(sessions, session_id)
                         /\ auth' = Answer("refresh", data,
                                           Rejected(401, "Refresh token expired"))
                         /\ UNCHANGED history
                    ELSE /\ sessions' = Put(sessions, session_id,
                                            NewSession(session_id, user_id,
                                                       new_refresh_token, now))
                         /\ history' =
                              [history EXCEPT
                                  !.issued = @ \cup {new_access_token, new_refresh_token},
                                  !.redeemed = @ \cup {data.refresh_token}]
                         /\ auth' = Answer("refresh", data,
                                           [session_id |-> session_id]
                                               @@ Tokens(new_access_token,
                                                         new_refresh_token))
    /\ UNCHANGED <<users, profiles, now, ids, inflight, thread_state, _spotify_client,
                   client_frame>>

\* every session of the user is removed
LogoutSessions_all(session_id) ==
    [s \in DOMAIN sessions \ SessionsOf(sessions, sessions[session_id].userId)
        |-> sessions[s]]
\* line 244
LogoutSessions(session_id) == Remove(sessions, session_id)

\* POST /auth/logout
logout ==
    /\ Serving
    /\ auth.seq < MaxRequests
    /\ \E data \in TokenBodies :
        LET rejection == TokenRejection(data, now)
        IN  IF rejection # NONE
            THEN /\ auth' = Answer("logout", data, rejection)
                 /\ UNCHANGED <<sessions, history>>
            ELSE IF Matching(sessions, data.refresh_token.sub, data.refresh_token) = {}
            THEN /\ auth' = Answer("logout", data, Rejected(401, "Session not found"))
                 /\ UNCHANGED <<sessions, history>>
            ELSE \E session_id \in Matching(sessions, data.refresh_token.sub,
                                            data.refresh_token) :
                    /\ sessions' = LogoutSessions(session_id)
                    /\ history' = [history EXCEPT !.logged_out = @ \cup {data.refresh_token}]
                    /\ auth' = Answer("logout", data,
                                      [status |-> 200, session_id |-> session_id,
                                       message |-> "Logged out successfully"])
    /\ UNCHANGED <<users, profiles, now, ids, inflight, thread_state, _spotify_client,
                   client_frame>>

\* the dependency of the search, track and stream endpoints of main.py
authorize ==
    /\ Serving
    /\ auth.seq < MaxRequests
    /\ \E credentials \in Credentials :
        auth' = Answer("get_current_user", credentials,
                       get_current_user(credentials, now))
    /\ UNCHANGED <<users, profiles, sessions, now, ids, history, inflight, thread_state,
                   _spotify_client, client_frame>>

\* ------------------------------------------------------------ api/profiles.py
\* lines 149-155: the keys existing_id can be, list(existing.keys())[0] being
\* the least key of the store's order; no key when the handle is empty, null
\* or free
ExistingIds(data) ==
    IF MissingHandle(data) THEN {}
    ELSE ByHandle(handle_lower(data.handle))

\* lines 158-168, the handle only
UpdatedProfiles(user_id, data) ==
    IF Has(data, "handle")
    THEN [profiles EXCEPT ![user_id].handle = handle_lower(data.handle)]
    ELSE profiles

\* PUT /profile/me, once the dependency get_current_user has let the request
\* through; data has a handle or none (display name, bio and avatar are not
\* modelled)
update_my_profile ==
    /\ Serving
    /\ auth.seq < MaxRequests
    /\ \E credentials \in Credentials, data \in ProfileBodies :
        LET caller == get_current_user(credentials, now)
            user_id == caller.user_id
            req == [credentials |-> credentials, data |-> data]
            taken == Answer("update_my_profile", req,
                            Rejected(400, "Handle already taken"))
            updated == Answer("update_my_profile", req,
                              [status |-> 200, user_id |-> user_id])
        IN  /\ caller.status = 200
            /\ IF ExistingIds(data) = {}
               THEN profiles' = UpdatedProfiles(user_id, data) /\ auth' = updated
               ELSE \E existing_id \in ExistingIds(data) :
                       IF existing_id # user_id
                       THEN auth' = taken /\ UNCHANGED profiles
                       ELSE profiles' = UpdatedProfiles(user_id, data) /\ auth' = updated
    /\ UNCHANGED <<users, sessions, now, ids, history, inflight, thread_state,
                   _spotify_client, client_frame>>

\* time passes: a second, or the life of a session
Tick ==
    /\ now < MaxClock
    /\ \E seconds \in {1, RefreshLifetime} :
        now' = now + seconds
    /\ UNCHANGED <<users, profiles, sessions, ids, auth, history, inflight, thread_state,
                   _spotify_client, client_frame>>

AuthNext ==
    \/ register
    \/ login
    \/ refresh_token
    \/ logout
    \/ authorize
    \/ update_my_profile
    \/ Tick

\* the catalog configuration plays no part in these endpoints
StoreInit == Init /\ env = [spotify_configured |-> TRUE, soundcloud_client_id |-> TRUE,
                            ytmusic |-> TRUE]

AuthSpec == StoreInit /\ [][AuthNext]_vars

\* ------------------------------------------------------------ refresh requests
\* POST /auth/refresh served for several clients at once (worker processes of
\* one deployment share the store).  A step is one access to the store with
\* the handler's own work before it; the answer reaches the client in a step
\* of its own.
refresh_frame == <<users, profiles, now, ids, auth, thread_state, _spotify_client,
                   client_frame>>

\* lines 161-186: the request is parsed and the sessions are read (line 175)
Refresh_Find ==
    /\ \E r \in Refreshers, data \in TokenBodies :
        LET rejection == RefreshRejection(data, now, sessions)
        IN  /\ inflight[r].pc = "idle"
            /\ IF rejection # NONE
               THEN inflight' = [inflight EXCEPT ![r] =
                                    [pc |-> "done", data |-> data, answer |-> rejection]]
               ELSE \E session_id \in Matching(sessions, data.refresh_token.sub,
                                               data.refresh_token) :
                       inflight' = [inflight EXCEPT ![r] =
                                       [pc |-> "found", data |-> data,
                                        session_id |-> session_id,
                                        session_data |-> sessions[session_id]]]
    /\ UNCHANGED <<sessions, history, refresh_frame>>

\* lines 188-209: the session read before is checked and written (line 194 or 209)
Refresh_Update ==
    /\ \E r \in Refreshers :
        LET session_id == inflight[r].session_id
            user_id == inflight[r].data.refresh_token.sub
            new_access_token == create_access_token(user_id, now)
            new_refresh_token == create_refresh_token(user_id, now)
        IN  /\ inflight[r].pc = "found"
            /\ IF now > inflight[r].session_data.expiresAt
               THEN /\ sessions' = Remove(sessions, session_id)
                    /\ inflight' = [inflight EXCEPT ![r] =
                                       [pc |-> "done", data |-> @.data,
                                        answer |-> Rejected(401, "Refresh token expired")]]
               ELSE /\ sessions' = Put(sessions, session_id,
                                       NewSession(session_id, user_id,
                                                  new_refresh_token, now))
                    /\ inflight' = [inflight EXCEPT ![r] =
                                       [pc |-> "written", data |-> @.data,
                                        session_id |-> session_id,
                                        answer |-> Tokens(new_access_token,
                                                          new_refresh_token)]]
    /\ UNCHANGED <<history, refresh_frame>>

\* line 211
Refresh_Return ==
    /\ \E r \in Refreshers :
        /\ inflight[r].pc = "written"
        /\ inflight' = [inflight EXCEPT ![r].pc = "done"]
        /\ history' =
             [history EXCEPT
                 !.issued = @ \cup {inflight[r].answer.access_token,
                                    inflight[r].answer.refresh_token},
                 !.redeemed = @ \cup {inflight[r].data.refresh_token}]
    /\ UNCHANGED <<sessions, refresh_frame>>

RefreshNext ==
    \/ register
    \/ login
    \/ Tick
    \/ Refresh_Find
    \/ Refresh_Update
    \/ Refresh_Return

RefreshSpec == StoreInit /\ [][RefreshNext]_vars

\* ------------------------------------------------------------ properties
InResolver == request = [op |-> "stream", platform |-> "spotify"]
ResolverRunning ==
    pc \in {"r_client", "r_track", "r_sc_search", "r_scan", "r_accept", "r_sc_stream",
            "r_yt", "r_preview"}
\* get_spotify_stream_url has returned
Returned == InResolver /\ pc \in {"r_return", "done"}
Called(fn) == \E i \in 1..Len(calls) : calls[i][1] = fn
HasUrl(d) == IsDict(d) /\ TruthyStr(d, "url")
IsStreamFrom(d, source) == HasUrl(d) /\ GetOr(d, "source", "") = source
NoSourceFound == [error |-> "No streamable source found for this Spotify track."]

\* C1: get_spotify_stream_url always comes to an end and hands its caller
\* exactly one of a stream record with a non-empty url or a record with an
\* error string: never None, never both, never an exception.
C1_ResolverAlwaysAnswers ==
    /\ ResolverRunning => ENABLED Next
    /\ Returned =>
          /\ ret # NONE
          /\ ret # RAISED
          /\ IsDict(ret)
          /\ HasUrl(ret) # Has(ret, "error")
          /\ Has(ret, "url") => ret.url # ""

\* an adapter raised inside the resolver and the caller still got an error record
C1_Witness ==
    /\ Returned
    /\ sc_stream_data = RAISED
    /\ Has(ret, "error")

CallRank(fn) ==
    CASE fn = "get_spotify_stream_url" -> 0
      [] fn = "sp.track" -> 1
      [] fn = "search_soundcloud" -> 2
      [] fn = "get_soundcloud_stream_url" -> 3
      [] fn = "get_youtube_stream_url" -> 4
      [] OTHER -> 5

\* C2: the strategies run in the order Upload, Video, preview, failure; the
\* Video catalog is queried only after the Upload step ended without a stream,
\* the preview is returned only after Upload and Video both ended without one,
\* the failure only if there is no preview either; a returned stream is the one
\* of the first strategy that produced one.
C2_FixedOrder ==
    InResolver =>
        /\ \A i, j \in 1..Len(calls) : i < j => CallRank(calls[i][1]) < CallRank(calls[j][1])
        /\ Called("get_youtube_stream_url") =>
              /\ Called("search_soundcloud")
              /\ ~HasUrl(sc_stream_data)
        /\ pc \in {"r_yt", "r_preview"} => Called("search_soundcloud") /\ ~HasUrl(sc_stream_data)
        /\ pc = "r_preview" => Called("get_youtube_stream_url")
        /\ Returned /\ IsStreamFrom(ret, "soundcloud") =>
              ret = sc_stream_data /\ ~Called("get_youtube_stream_url")
        /\ Returned /\ IsStreamFrom(ret, "youtube") => ret = yt_stream_data
        /\ Returned /\ (GetOr(ret, "type", "") = "audio_preview" \/ ret = NoSourceFound) =>
              /\ Called("search_soundcloud")
              /\ Called("get_youtube_stream_url")
              /\ ~HasUrl(sc_stream_data)
              /\ ~HasUrl(yt_stream_data)
        /\ Returned /\ ret = NoSourceFound => ~Has(track_info_spotify, "preview_url")
        /\ Returned /\ GetOr(ret, "type", "") = "audio_preview" =>
              Has(track_info_spotify, "preview_url")

\* the Upload candidate was accepted but not resolved, and the Video stream is returned
C2_Witness ==
    /\ Returned
    /\ Called("get_soundcloud_stream_url")
    /\ sc_stream_data = NONE
    /\ IsStreamFrom(ret, "youtube")

\* what the details lookup returns for a catalog video when both tiers answer
CatalogDetails(v) ==
    get_youtube_track_details(v, TRUE,
        [kind |-> "ok",
         json |-> [videoDetails |-> [lengthSeconds |-> YtLength(v), title |-> "t"]]],
        [kind |-> "ok", json |-> [title |-> "t", duration |-> YtLength(v)]])

\* C3: no Video stream is returned for a video whose details are available
\* and whose duration is more than 15000 ms away from the licensed track's
\* (stated for a licensed track of known, nonzero duration).
C3_MismatchedVideoDiscarded ==
    (/\ Returned
     /\ yt_video_id # NoVideoId
     /\ simplified_track.duration_ms > 0
     /\ CatalogDetails(yt_video_id) # NONE
     /\ Abs(CatalogDetails(yt_video_id).duration * 1000 - simplified_track.duration_ms)
            > 15000)
        => ~IsStreamFrom(ret, "youtube")

\* C4: the selected Upload candidate's stream is resolved if and only if its
\* duration difference is at most 10000 ms; no Upload stream further away is
\* resolved or returned.
C4_AcceptWithin10000 ==
    InResolver =>
        /\ (best_sc_match # NONE /\ pc \notin {"r_scan", "r_accept"}) =>
              ((pc = "r_sc_stream" \/ Called("get_soundcloud_stream_url"))
                  <=> DurationDiff(best_sc_match) <= 10000)
        /\ (pc = "r_sc_stream" \/ Called("get_soundcloud_stream_url")) =>
              best_sc_match # NONE /\ DurationDiff(best_sc_match) <= 10000
        /\ Returned /\ IsStreamFrom(ret, "soundcloud") =>
              DurationDiff(best_sc_match) <= 10000
        /\ (/\ simplified_track # NONE
            /\ simplified_track.duration_ms = 200000
            /\ best_sc_match # NONE
            /\ best_sc_match.duration = 215) =>
              ~(pc = "r_sc_stream" \/ Called("get_soundcloud_stream_url"))

\* target 200000 ms, candidate 208000 ms: accepted, its stream is about to be resolved
C4_Witness ==
    /\ pc = "r_sc_stream"
    /\ simplified_track.duration_ms = 200000
    /\ best_sc_match.duration = 208

Within5000(i) == DurationDiff(sc_results[i]) <= 5000
GoodEnough == {i \in 1..Len(sc_results) : Within5000(i)}
FirstGoodEnough == CHOOSE i \in GoodEnough : \A j \in GoodEnough : i <= j
\* candidates the loop has looked at
Examined == scan_i - 1

\* C5: the scan stops at the first candidate within 5000 ms; it is the one
\* selected and nothing after it is examined.
C5_StopsAtFirstGoodEnough ==
    pc \in {"r_scan", "r_accept"} =>
        /\ \A i \in 1..Examined : Within5000(i) => (pc = "r_accept" /\ i = Examined)
        /\ GoodEnough # {} => Examined <= FirstGoodEnough
        /\ (pc = "r_accept" /\ GoodEnough # {}) =>
              /\ Examined = FirstGoodEnough
              /\ best_sc_match = sc_results[FirstGoodEnough]

\* the scan stopped at a good-enough candidate although a later one is closer
C5_Witness ==
    /\ pc = "r_accept"
    /\ GoodEnough # {}
    /\ Examined = FirstGoodEnough
    /\ \E j \in (Examined + 1)..Len(sc_results) :
          DurationDiff(sc_results[j]) < DurationDiff(sc_results[Examined])

\* the licensed track lasts 200000 ms and the first three candidates are
\* 8000, 3000 and 1000 ms away from it
Diffs_8000_3000_1000 ==
    /\ Len(sc_results) >= 3
    /\ simplified_track.duration_ms = 200000
    /\ DurationDiff(sc_results[1]) = 8000
    /\ DurationDiff(sc_results[2]) = 3000
    /\ DurationDiff(sc_results[3]) = 1000

\* C6 as stated: among candidates with differences [8000, 3000, 1000] the scan
\* stops at the third (1000) and selects it.
C6_StopsAtThird ==
    (pc = "r_accept" /\ Diffs_8000_3000_1000) =>
        Examined = 3 /\ best_sc_match = sc_results[3]

\* C6 amended: among candidates with differences [8000, 3000, 1000] the scan
\* stops at the second (3000 <= 5000) and selects it; the third is never examined.
C6_StopsAtSecond ==
    (pc \in {"r_scan", "r_accept"} /\ Diffs_8000_3000_1000) =>
        /\ Examined <= 2
        /\ pc = "r_accept" => Examined = 2 /\ best_sc_match = sc_results[2]

C6_Witness == pc = "r_accept" /\ Diffs_8000_3000_1000

\* C7: when Upload and Video both ran and gave no stream and the licensed
\* track has a preview URL, the result is exactly the preview record.
C7_PreviewFallback ==
    (/\ Returned
     /\ Called("search_soundcloud")
     /\ ~HasUrl(sc_stream_data)
     /\ Called("get_youtube_stream_url")
     /\ ~HasUrl(yt_stream_data)
     /\ Has(track_info_spotify, "preview_url")) =>
        ret = [url |-> track_info_spotify.preview_url, type |-> "audio_preview",
               source |-> "spotify"]

C7_Witness ==
    /\ Returned
    /\ Called("get_soundcloud_stream_url")
    /\ ~HasUrl(sc_stream_data)
    /\ Called("get_youtube_stream_url")
    /\ ~HasUrl(yt_stream_data)
    /\ Has(track_info_spotify, "preview_url")

\* C8: for a catalog name outside {soundcloud, youtube, spotify} the search and
\* the stream endpoint answer {error: 'Unsupported platform'}, call no adapter
\* and do not raise.
C8_UnsupportedPlatform ==
    (/\ request.op \in {"search", "stream"}
     /\ request.platform \notin {"soundcloud", "youtube", "spotify"}) =>
        /\ pc = "done"
        /\ response = [error |-> "Unsupported platform"]
        /\ calls = << >>

C8_Witness ==
    /\ pc = "done"
    /\ request = [op |-> "search", platform |-> "unknown"]

\* C9: for a catalog name outside {soundcloud, youtube, spotify} the
\* track-details endpoint answers with an unsupported-platform error that is
\* not the 'Track not found' answer of a recognized catalog.
C9_DetailsUnsupportedPlatform ==
    (/\ pc = "done"
     /\ request.op = "track"
     /\ request.platform \notin {"soundcloud", "youtube", "spotify"}) =>
        /\ Has(response, "error")
        /\ response.error # "Track not found"

\* an upstream record with an id that its catalog's normalizer keeps
ScUsable(r) ==
    /\ Has(r, "id") /\ r.id # 0
    /\ ~(Has(r, "media") /\ r.media = NONE)
    /\ \/ Has(r, "streamable") /\ r.streamable
       \/ /\ Has(r, "media")
          /\ \E i \in 1..Len(r.media.transcodings) :
                r.media.transcodings[i] = Progressive
YtUsable(r) ==
    /\ Has(r, "videoId") /\ r.videoId # ""
    /\ Has(r, "duration") => _parse_duration(r.duration) <= 300
SpUsable(r) == Has(r, "id") /\ r.id # "" /\ r.type = "track"

Ids(tracks) == [i \in 1..Len(tracks) |-> tracks[i].id]
ScId(r) == ToString(r.id)
YtId(r) == r.videoId
SpId(r) == r.id

\* C10: a record without an id never becomes a track: every track returned by
\* the three searches and by the two formatters has a non-empty id taken from
\* an upstream record, and the usable records of the same response are all
\* returned, in upstream order.
C10_NoTrackWithoutId ==
    /\ (pc = "done" /\ request.op = "search" /\ Has(response, "results")) =>
          /\ \A i \in 1..Len(response.results) :
                Has(response.results[i], "id") /\ response.results[i].id # ""
          /\ (upstream.kind = "ok" /\ request.platform = "soundcloud"
                /\ env.soundcloud_client_id) =>
                Ids(response.results) = MapSeq(SeqFilter(upstream.collection, ScUsable), ScId)
          /\ (upstream.kind = "ok" /\ request.platform = "youtube" /\ env.ytmusic) =>
                Ids(response.results) = MapSeq(SeqFilter(upstream.results, YtUsable), YtId)
          /\ (upstream.kind = "ok" /\ request.platform = "spotify"
                /\ _spotify_client # NONE) =>
                Ids(response.results) = MapSeq(SeqFilter(upstream.items, SpUsable), SpId)
    /\ (pc = "done" /\ request.op = "track" /\ Has(response, "source")) =>
          /\ Has(response, "id") /\ response.id # ""
          /\ request.platform = "soundcloud" => response.id = ToString(upstream.json.id)
          /\ request.platform = "spotify" => response.id = upstream.json.id
    /\ \A i \in 1..Len(sc_results) : Has(sc_results[i], "id") /\ sc_results[i].id # ""

\* a search response held a record without an id next to a usable one, and the
\* usable one was returned
C10_Witness ==
    /\ pc = "done"
    /\ request = [op |-> "search", platform |-> "soundcloud"]
    /\ upstream.kind = "ok"
    /\ \E i \in 1..Len(upstream.collection) : ~Has(upstream.collection[i], "id")
    /\ Len(response.results) = 1

\* what the claim's words say of an upstream Upload-catalog record
ScHasId(r) == Has(r, "id") /\ r.id # 0
ScNullMedia(r) == Has(r, "media") /\ r.media = NONE
ScProgressiveEntry(r) ==
    /\ Has(r, "media")
    /\ ~ScNullMedia(r)
    /\ Has(r.media, "transcodings")
    /\ \E i \in 1..Len(r.media.transcodings) :
          LET t == r.media.transcodings[i]
          IN  Has(t, "format") /\ Has(t.format, "protocol")
                /\ t.format.protocol = "progressive" /\ Has(t, "url")
ScFlagged(r) == Has(r, "streamable") /\ r.streamable
ScStreamable(r) == ScHasId(r) /\ (ScProgressiveEntry(r) \/ ScFlagged(r))
ScStreamableWellFormed(r) == ScStreamable(r) /\ ~ScNullMedia(r)
AllStreamable(tracks) == \A i \in 1..Len(tracks) : tracks[i].streamable = TRUE
ScSearchAnswered ==
    /\ pc = "done"
    /\ request = [op |-> "search", platform |-> "soundcloud"]
    /\ upstream.kind = "ok"
    /\ env.soundcloud_client_id
ScTrackAnswered ==
    /\ pc = "done"
    /\ request = [op |-> "track", platform |-> "soundcloud"]
    /\ upstream.kind = "ok"
    /\ env.soundcloud_client_id
    /\ IsDict(upstream.json)
    /\ upstream.json # EMPTY

C12_StreamUrlNeverRaises ==
    /\ sc_stream_data # RAISED
    /\ (pc = "done" /\ request = [op |-> "stream", platform |-> "soundcloud"]) =>
          /\ response # RAISED
          /\ (upstream.kind = "ok" /\ upstream.json # NONE /\ upstream.json # EMPTY
                /\ (~IsDict(upstream.json) \/ ScNullMedia(upstream.json))) =>
                response = [error |-> "Stream not available"]

\* the identifier get_stream_url works with: the one passed in, else the first
\* result of the single-result search made for the query, else none
KnownVideoId ==
    IF applied.video_id # NoVideoId THEN applied.video_id
    ELSE IF applied.search_query_override = "" THEN NoVideoId
    ELSE LET search_results == search_youtube(env.ytmusic, applied.found)
         IN  IF Len(search_results) > 0 THEN search_results[1].videoId ELSE NoVideoId
ExtractorGaveUrl ==
    applied.info.kind = "ok" /\ applied.info.json # NONE /\ Has(applied.info.json, "url")
EmbedUrl(v) == "https://www.youtube.com/embed/" \o v \o "?autoplay=1"

\* C13: once a video identifier is known, get_stream_url returns neither null
\* nor an exception: the audio record with the extractor's url when the
\* extractor gave one, otherwise the embed record of that same identifier; it
\* returns null exactly when no identifier is known (none passed and no query,
\* or the search yields nothing).
C13_EmbedRatherThanNothing ==
    applied.fn = "get_stream_url" =>
        /\ applied.result # RAISED
        /\ applied.result = NONE <=> KnownVideoId = NoVideoId
        /\ (KnownVideoId # NoVideoId /\ ExtractorGaveUrl) =>
              applied.result =
                  [url |-> applied.info.json.url, type |-> "audio", source |-> "youtube"]
        /\ (KnownVideoId # NoVideoId /\ ~ExtractorGaveUrl) =>
              applied.result =
                  [url |-> EmbedUrl(KnownVideoId), type |-> "embed", source |-> "youtube"]

\* the identifier came from the search, the extractor raised, and the embed
\* page of the found video is returned
C13_Witness ==
    /\ applied.fn = "get_stream_url"
    /\ applied.video_id = NoVideoId
    /\ applied.info.kind = "DownloadError"
    /\ applied.result = [url |-> EmbedUrl("v2"), type |-> "embed", source |-> "youtube"]

YtSearchAnswered ==
    /\ pc = "done"
    /\ request = [op |-> "search", platform |-> "youtube"]
    /\ upstream.kind = "ok"
    /\ env.ytmusic
ParsedDuration(item) == _parse_duration(GetOr(item, "duration", << >>))
YtHasVideoId(item) == Has(item, "videoId") /\ item.videoId # ""
YtWithinCap(item) == YtHasVideoId(item) /\ ParsedDuration(item) <= 300

\* C14: search_youtube returns no track whose parsed duration exceeds 300
\* seconds; the results with a video id at or below 300 seconds, those of
\* unknown duration (parsed as 0) included, are all returned, in upstream
\* order, each with its parsed duration.
C14_SearchCap ==
    YtSearchAnswered =>
        LET kept == SeqFilter(upstream.results, YtWithinCap)
        IN  /\ \A i \in 1..Len(response.results) : response.results[i].duration <= 300
            /\ Ids(response.results) = MapSeq(kept, YtId)
            /\ \A i \in 1..Len(response.results) :
                  response.results[i].duration = ParsedDuration(kept[i])

\* a result of 301 seconds was dropped and the one of exactly 300 seconds
\* after it was returned
C14_Witness ==
    /\ YtSearchAnswered
    /\ Len(upstream.results) = 2
    /\ ParsedDuration(upstream.results[1]) = 301
    /\ ParsedDuration(upstream.results[2]) = 300
    /\ Ids(response.results) = <<"v5">>

\* the selected Upload candidate was accepted: its stream is being, or was, resolved
ScAccepted == InResolver /\ (pc = "r_sc_stream" \/ Called("get_soundcloud_stream_url"))

\* C15: no Upload candidate is accepted on a comparison in which its own
\* duration or the licensed track's duration is 0 (unknown).
C15_NoZeroDurationAccept ==
    ScAccepted =>
        /\ best_sc_match.duration # 0
        /\ simplified_track.duration_ms # 0

\* ---- the thumbnail policy, in the claim's words
ThumbNulls(t) == IF Has(t, "nulls") THEN t.nulls ELSE {}
WellTyped(thumbnails) == \A i \in 1..Len(thumbnails) : ThumbNulls(thumbnails[i]) = {}
\* every entry has url, width and height
EverySized(thumbnails) ==
    \A i \in 1..Len(thumbnails) :
        {"url", "width", "height"} \subseteq (DOMAIN thumbnails[i] \cup ThumbNulls(thumbnails[i]))
\* an entry with a url the reverse scan can see
ThumbSeen(t) == IF IsStr(t) THEN StartsWithHttp(t.str) ELSE Has(t, "url") /\ t.url # ""
ThumbText(t) == IF IsStr(t) THEN t.str ELSE t.url
\* the label is found in the entry's url or id
ThumbLabelled(t, label) ==
    /\ ThumbSeen(t)
    /\ \/ QualityKeyIn(label, ThumbText(t))
       \/ ~IsStr(t) /\ Has(t, "id") /\ Lower(t.id) = label
LabelsFound(thumbnails) ==
    {k \in 1..5 : \E i \in 1..Len(thumbnails) : ThumbLabelled(thumbnails[i], quality_order[k])}
BestLabel(thumbnails) ==
    quality_order[CHOOSE k \in LabelsFound(thumbnails) :
                      \A m \in LabelsFound(thumbnails) : k <= m]
\* the first entry the reverse scan meets with that label: the last of the list
FirstInReverse(thumbnails, label) ==
    thumbnails[CHOOSE i \in 1..Len(thumbnails) :
                  /\ ThumbLabelled(thumbnails[i], label)
                  /\ \A j \in 1..Len(thumbnails) :
                        ThumbLabelled(thumbnails[j], label) => j <= i]
\* the last entry the reverse scan sees: the first of the list with a url
LastSeenInReverse(thumbnails) ==
    thumbnails[CHOOSE i \in 1..Len(thumbnails) :
                  /\ ThumbSeen(thumbnails[i])
                  /\ \A j \in 1..Len(thumbnails) : ThumbSeen(thumbnails[j]) => i <= j]
ThumbPolicy(thumbnails, result) ==
    /\ (thumbnails # << >> /\ EverySized(thumbnails)) =>
          \E i \in 1..Len(thumbnails) :
              /\ result = Some(thumbnails[i].url)
              /\ \A j \in 1..Len(thumbnails) :
                    thumbnails[i].width * thumbnails[i].height
                        >= thumbnails[j].width * thumbnails[j].height
    /\ (~EverySized(thumbnails) /\ LabelsFound(thumbnails) # {}) =>
          result = Some(ThumbText(FirstInReverse(thumbnails, BestLabel(thumbnails))))
    /\ (~EverySized(thumbnails) /\ LabelsFound(thumbnails) = {}
          /\ \E i \in 1..Len(thumbnails) : ThumbSeen(thumbnails[i])) =>
          result = Some(ThumbText(LastSeenInReverse(thumbnails)))
    /\ (thumbnails = << >> \/
          (~EverySized(thumbnails) /\ \A i \in 1..Len(thumbnails) : ~ThumbSeen(thumbnails[i]))) =>
          result = NONE
ThumbExamples(thumbnails, result) ==
    /\ thumbnails = <<[url |-> "a", width |-> 100, height |-> 100],
                      [url |-> "b", width |-> 640, height |-> 480]>> => result = Some("b")
    /\ thumbnails = <<[url |-> "https://i/default.jpg"], [url |-> "https://i/hqdefault.jpg"]>>
          => result = Some("https://i/hqdefault.jpg")
ThumbApplied == applied.fn = "_get_best_thumbnail"

\* C16 as stated: for every thumbnail list _get_best_thumbnail never raises
\* and equals the three-step policy: the largest area if every entry has url,
\* width and height; else the url recorded for the best quality label found
\* in the reverse scan; else the last url seen in that scan, or null.
C16_ThumbnailPolicyTotal ==
    ThumbApplied =>
        /\ applied.result # RAISED
        /\ ThumbPolicy(applied.thumbnails, applied.result)
        /\ ThumbExamples(applied.thumbnails, applied.result)

\* C16 amended: for every thumbnail list whose entries hold no null width,
\* height or id, _get_best_thumbnail does not raise and equals the three-step
\* policy; it raises exactly when every entry has the keys url, width and
\* height and a width or height is null, or when the reverse scan runs and an
\* entry's id is null.
C16_ThumbnailPolicyWellTyped ==
    ThumbApplied =>
        /\ WellTyped(applied.thumbnails) =>
              /\ applied.result # RAISED
              /\ ThumbPolicy(applied.thumbnails, applied.result)
              /\ ThumbExamples(applied.thumbnails, applied.result)
        /\ applied.result = RAISED <=>
              \/ /\ EverySized(applied.thumbnails)
                 /\ \E i \in 1..Len(applied.thumbnails) :
                       ThumbNulls(applied.thumbnails[i]) \cap {"width", "height"} # {}
              \/ /\ ~EverySized(applied.thumbnails)
                 /\ \E i \in 1..Len(applied.thumbnails) :
                       "id" \in ThumbNulls(applied.thumbnails[i])

\* two entries carry the same best label, one in its url and one in its id,
\* and the later one of the list, met first by the reverse scan, gives the url
C16_Witness ==
    /\ ThumbApplied
    /\ applied.thumbnails = <<[url |-> "https://i/default.jpg"],
                              [url |-> "https://i/hqdefault.jpg"],
                              [url |-> "https://i/x.jpg", id |-> "HQDEFAULT"]>>
    /\ applied.result = Some("https://i/x.jpg")

\* the candidate of least difference, the first of them in search-result order
LeastDiffFirst ==
    CHOOSE i \in 1..Len(sc_results) :
        \A j \in 1..Len(sc_results) :
            \/ DurationDiff(sc_results[i]) < DurationDiff(sc_results[j])
            \/ DurationDiff(sc_results[i]) = DurationDiff(sc_results[j]) /\ i <= j

\* C17: when the scan ends without early exit every candidate has been
\* examined and the selected one has the minimum duration difference; among
\* candidates of equal minimum difference the first in search-result order
\* is selected.
C17_FirstOfMinimumWins ==
    (pc = "r_accept" /\ GoodEnough = {}) =>
        /\ Examined = Len(sc_results)
        /\ best_sc_match = sc_results[LeastDiffFirst]
        /\ min_duration_diff = DurationDiff(sc_results[LeastDiffFirst])
        /\ \A j \in 1..Len(sc_results) : min_duration_diff <= DurationDiff(sc_results[j])

\* the scan ended without early exit on two candidates 8000 ms away on either
\* side of the target, and the earlier one is selected
C17_Witness ==
    /\ pc = "r_accept"
    /\ GoodEnough = {}
    /\ \E i, j \in 1..Len(sc_results) :
          /\ i < j
          /\ sc_results[i].duration # sc_results[j].duration
          /\ DurationDiff(sc_results[i]) = min_duration_diff
          /\ DurationDiff(sc_results[j]) = min_duration_diff
          /\ best_sc_match = sc_results[i]

OnlyCalled(fns) == \A i \in 1..Len(calls) : calls[i][1] \in fns
LookupFailed ==
    {[error |-> "Spotify track ID not found."],
     [error |-> "Spotify API error"],
     [error |-> "Unexpected error"]}

\* C18: when the licensed client is not configured, or the licensed lookup
\* raises or yields no track, the resolver has returned an error record and
\* has issued no Upload search, Upload stream resolution, Video search or
\* Video stream resolution; such calls are only ever issued with the licensed
\* track in hand.
C18_FailFast ==
    InResolver =>
        /\ (pc # "r_client" /\ _spotify_client = NONE) =>
              /\ Returned
              /\ ret = [error |-> "Spotify client not configured."]
              /\ OnlyCalled({"get_spotify_stream_url"})
        /\ (pc \notin {"r_client", "r_track"} /\ _spotify_client # NONE
              /\ track_info_spotify = NONE) =>
              /\ Returned
              /\ ret \in LookupFailed
              /\ OnlyCalled({"get_spotify_stream_url", "sp.track"})
        /\ ~OnlyCalled({"get_spotify_stream_url", "sp.track"}) =>
              /\ _spotify_client # NONE
              /\ track_info_spotify # NONE
              /\ simplified_track # NONE

\* the lookup answered with no track and the resolver returned at once
C18_Witness ==
    /\ Returned
    /\ ret = [error |-> "Spotify track ID not found."]
    /\ calls = <<(<<"get_spotify_stream_url", "s1">>), (<<"sp.track", "s1">>)>>

CountCalls(fn) == Cardinality({i \in 1..Len(calls) : calls[i][1] = fn})
UpstreamCalls ==
    {"sp.track", "search_soundcloud", "get_soundcloud_stream_url",
     "get_youtube_stream_url", "get_youtube_track_details"}
\* a measure that every step of the resolver increases
ResolverRank ==
    CASE pc = "r_client" -> 100
      [] pc = "r_track" -> 200
      [] pc = "r_sc_search" -> 300
      [] pc = "r_scan" -> 400 + scan_i
      [] pc = "r_accept" -> 500
      [] pc = "r_sc_stream" -> 600
      [] pc = "r_yt" -> 700
      [] pc = "r_preview" -> 800
      [] pc = "r_return" -> 900
      [] OTHER -> 1000
AtMostOnceEach ==
    InResolver =>
        /\ \A fn \in UpstreamCalls : CountCalls(fn) <= 1
        /\ Len(calls) <= 1 + Cardinality(UpstreamCalls)
        /\ \A i \in 1..Len(calls) :
              /\ calls[i][1] = "search_soundcloud" => calls[i][3] = 5
              /\ calls[i][1] = "get_soundcloud_stream_url" =>
                    best_sc_match # NONE /\ calls[i][2] = best_sc_match.id
        /\ pc = "r_scan" => scan_i <= Len(sc_results)
        /\ ResolverRunning => ENABLED Next

\* C19: a resolver run issues each upstream call at most once (licensed
\* lookup, Upload search with limit 5, Upload stream resolution of the one
\* selected candidate, Video search-and-resolve, Video details lookup), never
\* repeats one, and every step brings it closer to its return.
C19_BoundedNoRetry ==
    /\ []AtMostOnceEach
    /\ [][ResolverRunning => ResolverRank' > ResolverRank]_vars

\* the stream of the selected Upload candidate could not be resolved; no other
\* candidate was tried and the run went on to the Video catalog once
C19_Witness ==
    /\ Returned
    /\ sc_stream_data = NONE
    /\ CountCalls("search_soundcloud") = 1
    /\ CountCalls("get_soundcloud_stream_url") = 1
    /\ CountCalls("get_youtube_stream_url") = 1
    /\ Len(calls) = 5

DetailsApplied == applied.fn = "get_youtube_track_details"
\* the metadata API answered with video details, of this length
ApiAnswered ==
    /\ env.ytmusic
    /\ applied.song.kind = "ok"
    /\ applied.song.json # NONE
    /\ Has(applied.song.json, "videoDetails")
ApiLength ==
    IF Has(applied.song.json.videoDetails, "lengthSeconds")
    THEN applied.song.json.videoDetails.lengthSeconds ELSE 0
ExtractorAnswered == applied.info.kind = "ok" /\ applied.info.json # NONE
ExtractorLength ==
    IF Has(applied.info.json, "duration") THEN applied.info.json.duration ELSE 0
ExtractorInvoked ==
    \E i \in 1..Len(applied.lookups) : applied.lookups[i] = "extract_info"

\* C20: the 300-second cap holds in both tiers of get_youtube_track_details:
\* a metadata-API answer over the cap is not used and the extractor is tried;
\* an extractor answer over the cap gives null; every record returned has a
\* duration of at most 300 seconds; the extractor is invoked exactly when the
\* metadata API produced no details.
C20_DetailsCap ==
    DetailsApplied =>
        /\ applied.result # NONE => applied.result.duration <= 300
        /\ (ApiAnswered /\ ApiLength > 300) =>
              /\ ExtractorInvoked
              /\ applied.result # NONE =>
                    /\ applied.result.title = "extractor"
                    /\ applied.result.duration = ExtractorLength
        /\ (ExtractorInvoked /\ ExtractorAnswered /\ ExtractorLength > 300) =>
              applied.result = NONE
        /\ ExtractorInvoked <=> ~(ApiAnswered /\ ApiLength <= 300)
        /\ (ApiAnswered /\ ApiLength <= 300) =>
              /\ applied.result # NONE
              /\ applied.result.title = "api"
              /\ applied.result.duration = ApiLength

\* the metadata API answered with 301 seconds, the extractor with 200: the
\* extractor's details are returned
C20_Witness ==
    /\ DetailsApplied
    /\ ApiAnswered
    /\ ApiLength = 301
    /\ ExtractorInvoked
    /\ applied.result # NONE
    /\ applied.result.duration = 200

\* ---- the resolver's Video step
\* the Upload step gave no stream: get_youtube_stream_url was called
VideoStepTaken == Called("get_youtube_stream_url")
\* search_youtube(yt_query, limit=1) gave at least one track
VideoSearchYielded == yt_video_id # NoVideoId
IsVideoResult(d) ==
    /\ IsStreamFrom(d, "youtube")
    /\ d.type \in {"audio", "embed"}
IsPreviewResult(d) == IsStreamFrom(d, "spotify") /\ d.type = "audio_preview"

\* C22: once the resolver has taken its Video step, a Video search that
\* yields a result makes the resolver return a Video-catalog result (audio or
\* embed); the audio_preview result and the 'no streamable source' failure
\* are returned only when the Video search yielded nothing.
C22_VideoResultWhenSearchYields ==
    (Returned /\ VideoStepTaken) =>
        /\ VideoSearchYielded => IsVideoResult(ret)
        /\ (IsPreviewResult(ret) \/ ret = NoSourceFound) => ~VideoSearchYielded

\* the extractor failed for the video found: the embed page is the answer,
\* although the licensed track has a preview
C22_Witness ==
    /\ pc = "done"
    /\ VideoStepTaken
    /\ VideoSearchYielded
    /\ TruthyStr(track_info_spotify, "preview_url")
    /\ IsVideoResult(ret)
    /\ ret.type = "embed"
    /\ response = ret

\* ---- the track-details endpoint
TrackAnswered == pc = "done" /\ request.op = "track"
IsErrorObject(d) == IsDict(d) /\ DOMAIN d = {"error"}
IsFormedTrack(d) ==
    /\ IsDict(d)
    /\ {"id", "title", "source"} \subseteq DOMAIN d

\* C30: for every recognized catalog and every upstream outcome the
\* track-details endpoint answers with a normalized track or with an error
\* object, never with null; an Upload-catalog record that is fetched and then
\* discarded by the normalizer gives {error: 'Track not found'}.
C30_DetailsNeverNull ==
    (TrackAnswered /\ request.platform \in Supported) =>
        /\ response # NONE
        /\ IsErrorObject(response) \/ IsFormedTrack(response)
        /\ (/\ request.platform = "soundcloud"
            /\ ~Falsy(get_soundcloud_track_details(env.soundcloud_client_id, upstream))
            /\ format_soundcloud_track(
                   get_soundcloud_track_details(env.soundcloud_client_id, upstream))
                 = NONE) =>
              response = [error |-> "Track not found"]

\* ---- the shared licensed-catalog client
\* C21: under every interleaving of threads calling get_spotify_client the
\* client is constructed at most once, all callers that get a client get the
\* same instance, and a client once stored is never replaced or dropped.
C21_ClientConstructedOnce ==
    /\ [](constructions <= 1 /\ Cardinality(returned) <= 1)
    /\ [][_spotify_client # NONE => _spotify_client' = _spotify_client]_vars

\* ---- refresh requests served at once
Redeemed(r) == inflight[r].pc = "done" /\ inflight[r].answer.status = 200
\* the answer with the new pair leaves the handler
Answering(r) == inflight[r].pc = "written" /\ inflight'[r].pc = "done"

\* C23: under every interleaving of refresh requests no two requests that
\* present the same refresh token both get a new token pair, and the refresh
\* token a request is answered with is the one its session stores at that
\* moment.
C23_RedeemedAtMostOnce ==
    /\ [](\A r1, r2 \in Refreshers :
            (r1 # r2 /\ Redeemed(r1) /\ Redeemed(r2)) =>
                inflight[r1].data.refresh_token # inflight[r2].data.refresh_token)
    /\ [][\A r \in Refreshers :
            Answering(r) =>
                /\ inflight[r].session_id \in DOMAIN sessions
                /\ sessions[inflight[r].session_id].refreshToken
                     = inflight[r].answer.refresh_token]_vars

\* ---- auth and profile requests served one at a time
\* the step serves a request of the kind op
Served(op) == auth'.seq = auth.seq + 1 /\ auth'.op = op
\* the refresh token the request of the step presents, if it presents one
Presents(token) == Has(auth'.req, "refresh_token") /\ auth'.req.refresh_token = token
PresentsOneOf(tokens) == \E token \in tokens : Presents(token)
OthersUnchanged(node, session_id) ==
    \A s \in DOMAIN node \ {session_id} : s \in DOMAIN node' /\ node'[s] = node[s]

\* C24: a successful refresh keeps the session under its id with the new
\* refresh token in it and leaves the other sessions as they were; a refresh
\* or logout that presents a refresh token redeemed before is answered 401 and
\* changes no session.
C24_RotationRetiresOldToken ==
    [][/\ (Served("refresh") /\ auth'.status = 200) =>
            /\ auth'.session_id \in DOMAIN sessions
            /\ DOMAIN sessions' = DOMAIN sessions
            /\ sessions'[auth'.session_id].sessionId = auth'.session_id
            /\ sessions'[auth'.session_id].userId = sessions[auth'.session_id].userId
            /\ sessions'[auth'.session_id].refreshToken = auth'.refresh_token
            /\ OthersUnchanged(sessions, auth'.session_id)
       /\ ((Served("refresh") \/ Served("logout")) /\ PresentsOneOf(history.redeemed)) =>
            /\ auth'.status = 401
            /\ sessions' = sessions]_vars

\* C25: a refresh or logout that presents a refresh token logged out before
\* is answered 401, whatever was served in between.
C25_LoggedOutStaysOut ==
    [][((Served("refresh") \/ Served("logout")) /\ PresentsOneOf(history.logged_out)) =>
            auth'.status = 401]_vars

\* C26: a successful logout removes one session, which stored the presented
\* token, and nothing else; a rejected logout (400 or 401) removes nothing;
\* users and profiles are never touched.
C26_LogoutFrame ==
    [][Served("logout") =>
          /\ users' = users
          /\ profiles' = profiles
          /\ auth'.status \in {200, 400, 401}
          /\ auth'.status = 200 =>
                /\ auth'.session_id \in DOMAIN sessions
                /\ Presents(sessions[auth'.session_id].refreshToken)
                /\ DOMAIN sessions' = DOMAIN sessions \ {auth'.session_id}
                /\ OthersUnchanged(sessions, auth'.session_id)
          /\ auth'.status # 200 => sessions' = sessions]_vars

\* a user with two sessions has logged out of one of them
C26_Witness ==
    /\ auth.op = "logout"
    /\ auth.status = 200
    /\ SessionsOf(sessions, auth.req.refresh_token.sub) # {}

\* g is h in lower case
IsLowerCaseOf(g, h) ==
    /\ Len(g) = Len(h)
    /\ \A i \in 1..Len(h) : g[i] = (IF h[i] = "A" THEN "a" ELSE h[i])
AddsOne(node, key) ==
    /\ key \notin DOMAIN node
    /\ DOMAIN node' = DOMAIN node \cup {key}
    /\ \A k \in DOMAIN node : node'[k] = node[k]
\* what the claim lists as reasons to reject, read off the request and the store
EmailRegistered(data) == \E u \in DOMAIN users : users[u].email = data.email
HandleHeld(data) ==
    \E p \in DOMAIN profiles : IsLowerCaseOf(profiles[p].handle, data.handle)
FieldMissing(data) ==
    \/ \E k \in {"email", "password", "handle"} : k \notin DOMAIN data
    \/ data.email = ""
    \/ data.handle = << >>

\* C27: a register request answered 400 leaves users, profiles and sessions
\* as they were, and a request with a missing field, a registered email or a
\* held handle is answered 400; a register request answered 200 adds one user,
\* one profile under the same id with the handle in lower case, and one
\* session of that user holding the refresh token of the answer.
C27_RegisterAllOrNothing ==
    [][Served("register") =>
          /\ auth'.status \in {200, 400}
          /\ (FieldMissing(auth'.req) \/ EmailRegistered(auth'.req)
                 \/ HandleHeld(auth'.req)) => auth'.status = 400
          /\ auth'.status = 400 =>
                /\ users' = users
                /\ profiles' = profiles
                /\ sessions' = sessions
          /\ auth'.status = 200 =>
                \E user_id \in DOMAIN users', session_id \in DOMAIN sessions' :
                    /\ AddsOne(users, user_id)
                    /\ users'[user_id].email = auth'.req.email
                    /\ AddsOne(profiles, user_id)
                    /\ profiles'[user_id].id = user_id
                    /\ IsLowerCaseOf(profiles'[user_id].handle, auth'.req.handle)
                    /\ AddsOne(sessions, session_id)
                    /\ sessions'[session_id].userId = user_id
                    /\ sessions'[session_id].refreshToken = auth'.refresh_token]_vars

\* a second user has registered with the handle "A", stored as "a", after a
\* request for a held handle was turned down
C27_Witness ==
    /\ auth.op = "register"
    /\ auth.status = 200
    /\ auth.req.handle = <<"A">>
    /\ Cardinality(DOMAIN users) = 2
    /\ \E p \in DOMAIN profiles : profiles[p].handle = <<"a">>
    /\ Cardinality(DOMAIN sessions) = 2

\* ---- stored handles
LowerCaseHandleChars == {"a", "b", "1", "_", "-"}

\* C28: no two profiles store the same handle, and every stored handle is a
\* non-empty string of lower-case letters, digits, underscores and dashes.
C28_HandlesUniqueAndWellFormed ==
    /\ \A p, q \in DOMAIN profiles : p # q => profiles[p].handle # profiles[q].handle
    /\ \A p \in DOMAIN profiles :
          /\ profiles[p].handle # << >>
          /\ \A i \in 1..Len(profiles[p].handle) :
                profiles[p].handle[i] \in LowerCaseHandleChars

\* ---- token types
IsTokenOfType(token, type) == Has(token, "type") /\ token.type = type
\* the token verifies, has not expired and names a subject
Decodable(token) == Has(token, "exp") /\ token.exp > now /\ Has(token, "sub")

\* C29: get_current_user lets a request through exactly when its token is a
\* decodable access token with a subject, and answers 401 otherwise, a
\* refresh token included; refresh and logout answer 401 to an access token
\* and change no session, and succeed only for a refresh token.
C29_TokenTypesNotInterchangeable ==
    [][/\ Served("get_current_user") =>
            /\ auth'.status \in {200, 401}
            /\ auth'.status = 200 <=>
                  (IsTokenOfType(auth'.req, "access") /\ Decodable(auth'.req))
            /\ auth'.status = 200 => auth'.user_id = auth'.req.sub
       /\ (Served("refresh") \/ Served("logout")) =>
            /\ (Has(auth'.req, "refresh_token")
                   /\ IsTokenOfType(auth'.req.refresh_token, "access")) =>
                  /\ auth'.status = 401
                  /\ sessions' = sessions
            /\ auth'.status = 200 =>
                  /\ IsTokenOfType(auth'.req.refresh_token, "refresh")
                  /\ Decodable(auth'.req.refresh_token)]_vars

\* a refresh token that has not expired is sent as the caller identity and
\* turned down
C29_Witness ==
    /\ auth.op = "get_current_user"
    /\ auth.status = 401
    /\ IsTokenOfType(auth.req, "refresh")
    /\ Decodable(auth.req)

====
